---- MODULE Spec2Model ----
(***************************************************************************)
(* Verification model of ly2video's synchronisation core:                  *)
(*   - TimeCode (src/ly2video/synchro.py): the frame scheduler,            *)
(*   - getNoteIndices (src/ly2video/cli.py): the anchor/MIDI alignment.    *)
(*                                                                         *)
(* Time is kept exact.  The code computes in floating point; here a        *)
(* duration in seconds is an integer numerator over the denominator        *)
(* SecsDen(resolution), and int(round(x)) is the nearest integer, where    *)
(* an exact tie k + 1/2 may come out as k or as k + 1 (Python rounds a     *)
(* tie to even, and the floating-point error of the operands decides       *)
(* which side of the tie the computed x lands on).                         *)
(***************************************************************************)
EXTENDS Integers, Sequences, FiniteSets, TLC

VARIABLES
    \* ---- TimeCode object (synchro.py) ----
    miditicks,          \* self.__miditicks
    temposList,         \* self.temposList: sequence of <<tick, bpm>>
    midiResolution,     \* self.midiResolution
    fps,                \* self.fps
    currentTickIndex,   \* self.__currentTickIndex (0-based, as in the code)
    tempoIndex,         \* self.tempoIndex (0-based)
    tempo,              \* self.tempo
    secs,               \* self.secs, numerator over SecsDen(midiResolution)
    wroteFrames,        \* self.__wroteFrames
    currentTick,        \* self.__currentTick
    nextTick,           \* self.__nextTick
    currentOffset,      \* self.currentOffset, a fraction [num, den]
    nextOffset,         \* self.nextOffset, a fraction [num, den]
    observers,          \* Observable.__observers, in registration order
    \* ---- the caller's view of the TimeCode calls ----
    tcOp,               \* the last call made: "init", "nbFrames", "goTo"
    tcCall,             \* what the last nbFramesToNextNote saw and returned
    framesLog,          \* the values nbFramesToNextNote returned, in order
    tcCalls,            \* nbFramesToNextNote calls made on the current segment
    \* ---- the media objects registered as observers (video.py) ----
    scoreImage,         \* the ScoreImage object
    slideShow,          \* the SlideShow object
    notified,           \* every update() call made so far, in order
    crop,               \* a ScoreImage whose frames are cropped
    \* ---- VideoFrameWriter.frames (video.py) ----
    writer,
    \* ---- two TimeCode cursors queried side by side ----
    probe,
    \* ---- one TimeCode cursor queried again and again ----
    query,
    \* ---- getNotesInTicks and getMidiEvents (cli.py) ----
    midiFile,           \* midiFile.tracks, times absolute
    extract,            \* the locals of getNotesInTicks and getMidiEvents
    \* ---- getLeftmostGrobsByMoment (cli.py) ----
    leftmost,
    \* ---- ly.tokenize.Tokenizer ----
    tokenizer,
    \* ---- the process: what went to stderr and how the run ended ----
    process,
    \* ---- getNoteIndices (cli.py) ----
    grobs,              \* leftmostGrobsByMoment: sequence of anchors
    alResolution,       \* midiResolution argument
    midiTicks,          \* midiTicks argument (mutated in place)
    notesInTicks,       \* notesInTicks: tick -> set of note numbers
    pitchBends,         \* pitchBends: NoteOn event -> bend of its pitch bend
    origTicks,          \* midiTicks as passed in
    i,                  \* index into leftmostGrobsByMoment
    midiIndex,          \* index into midiTicks
    alignedNoteIndices, \* the result list
    ticksSkipped,       \* ticksSkipped
    lastChord,          \* lastChord
    alpc,               \* "loop", "after", "returned", "bug"
    alBug,              \* which bug() call ended the run, "" if none
    alOp,               \* the branch the last loop iteration took
    alPrev,             \* the state the last loop iteration started from
    syncTicks,          \* the ticks paired with the emitted sync points
    consecutiveSkips,   \* ticks dropped since the last sync point
    firstRun            \* what an earlier call of getNoteIndices left behind

tcVars == <<miditicks, temposList, midiResolution, fps, currentTickIndex,
            tempoIndex, tempo, secs, wroteFrames, currentTick, nextTick,
            currentOffset, nextOffset, observers,
            tcOp, tcCall, framesLog, tcCalls>>

mediaVars == <<scoreImage, slideShow, notified, crop>>

mdVars == <<midiFile, extract>>

lyVars == <<leftmost, tokenizer, process>>

alVars == <<grobs, alResolution, midiTicks, notesInTicks, pitchBends, origTicks, i,
            midiIndex, alignedNoteIndices, ticksSkipped, lastChord, alpc,
            alBug, alOp, alPrev, syncTicks, consecutiveSkips, firstRun>>

vars == <<tcVars, mediaVars, writer, probe, query, alVars, mdVars, lyVars>>

(***************************************************************************)
(* Bounds of the explored inputs.                                          *)
(***************************************************************************)
MaxTick == 4
MaxTicksLen == 4
MaxTempos == 2
MaxCallsPerSegment == 1
MaxMoment == 5
MaxGrobs == 3
MaxMidiTick == 2
LongTicks == 6
MaxQueries == 2

Tempos == {60, 120}
FpsChoices == {2, 3}
Resolutions == {2}
Pitches == {60, 62}
Bends == {-8192}
PitchSets == {{60}, {62}, {60, 62}}
AlignResolutions == {1}

(***************************************************************************)
(* Exact arithmetic.                                                       *)
(***************************************************************************)
TempoLcm == 6 * 60

\* seconds = numerator / SecsDen(resolution)
SecsDen(resolution) == resolution * (TempoLcm \div 60)

\* int(round(p/q)) for q > 0: every integer nearest to p/q
RoundChoices(p, q) ==
    LET fl == p \div q
        rem == p - fl * q
    IN  IF 2 * rem < q THEN {fl}
        ELSE IF 2 * rem > q THEN {fl + 1}
        ELSE {fl, fl + 1}

RECURSIVE SortedSeq(_)
SortedSeq(S) ==
    IF S = {} THEN <<>>
    ELSE LET m == CHOOSE x \in S : \A y \in S : x <= y
         IN  <<m>> \o SortedSeq(S \ {m})

Last(s) == s[Len(s)]

\* A bug: the tick before the pointer removed (list.pop(k - 1); for k = 0
\* Python removes the last entry)
popBefore(s, k) ==
    IF k = 0 THEN SubSeq(s, 1, Len(s) - 1)
    ELSE SubSeq(s, 1, k - 1) \o SubSeq(s, k + 1, Len(s))

\* A bug: the tick left in the list (the pop forgotten)
popNothing(s, k) == s

\* A bug: list.pop(0) where list.pop(k) is meant
popFirst(s, k) == Tail(s)

\* Python's list.pop(k), k counted from 0
pop(s, k) == SubSeq(s, 1, k) \o SubSeq(s, k + 2, Len(s))

\* Python 3 round() of an exactly represented p/q: a tie goes to the even side
RoundHalfEven(p, q) ==
    LET c == RoundChoices(p, q)
    IN  CHOOSE n \in c : Cardinality(c) = 1 \/ n % 2 = 0

(***************************************************************************)
(* TimeCode (src/ly2video/synchro.py).                                     *)
(***************************************************************************)

\* TimeCode.ticksToSecs with self.tempo passed explicitly
ticksToSecs(startTick, endTick, bpm) ==
    (endTick - startTick) * (TempoLcm \div bpm)

\* The while loop of TimeCode.secsElapsedForTempoChanges and the statement
\* after it.  ti is self.tempoIndex and bpm is self.tempo; both are written
\* back by the caller from the record returned.
RECURSIVE secsElapsedLoop(_, _, _, _, _, _, _)
secsElapsedLoop(tl, ti, bpm, startTick, endTick, lastTick, acc) ==
    IF ti < Len(tl) /\ tl[ti + 1][1] < endTick
    THEN LET tempoTick == tl[ti + 1][1]
             newTempo == tl[ti + 1][2]
         IN  IF tempoTick = startTick
             THEN secsElapsedLoop(tl, ti + 1, newTempo, startTick, endTick,
                                  lastTick, acc)
             ELSE secsElapsedLoop(tl, ti + 1, newTempo, startTick, endTick,
                                  tempoTick,
                                  acc + ticksToSecs(lastTick, tempoTick, newTempo))
    ELSE [secs |-> acc + ticksToSecs(lastTick, endTick, bpm),
          tempoIndex |-> ti,
          tempo |-> bpm]

\* TimeCode.secsElapsedForTempoChanges(startTick, endTick) on a TimeCode
\* whose tempo cursor is (ti, bpm)
secsElapsedForTempoChanges(tl, ti, bpm, startTick, endTick) ==
    secsElapsedLoop(tl, ti, bpm, startTick, endTick, startTick, 0)

\* A bug: the silent prelude left out of the constructor
cursorWithoutPrelude(tl, initialTick) ==
    [secs |-> 0, tempoIndex |-> 0, tempo |-> tl[1][2]]

\* The tempo cursor TimeCode.__init__ leaves behind: tempoIndex 0 and the
\* first tempo, then the silent prelude 0 -> initialTick when initialTick > 0
InitialCursor(tl, initialTick) ==
    IF initialTick > 0
    THEN secsElapsedForTempoChanges(tl, 0, tl[1][2], 0, initialTick)
    ELSE [secs |-> 0, tempoIndex |-> 0, tempo |-> tl[1][2]]

\* A bug: the index of the next tick compared instead of the one after it
atEndOneLate == currentTickIndex + 1 >= Len(miditicks)

\* A bug: the length of the tick list left out of the comparison
atEndAtThirdTick == currentTickIndex + 2 >= 4

\* TimeCode.atEnd
atEnd == currentTickIndex + 2 >= Len(miditicks)

\* A bug nbFramesToNextNote's comment warns of: the duration of the frame
\* set taken from the ideal start time instead of the actual one
frameSetSecsFromIdealStart(targetSecs) ==
    targetSecs * fps - secs * fps

\* neededFrameSetSecs * self.fps in nbFramesToNextNote, with
\* neededFrameSetSecs = targetSecs - float(self.__wroteFrames) / self.fps;
\* a numerator over SecsDen(midiResolution)
neededFrameSetSecs(targetSecs) ==
    targetSecs * fps - wroteFrames * SecsDen(midiResolution)

\* A bug: int() without round()
truncatedFrames(targetSecs) ==
    {neededFrameSetSecs(targetSecs) \div SecsDen(midiResolution)}

\* neededFrames = int(round(neededFrameSetSecs * self.fps))
neededFrames(targetSecs) ==
    RoundChoices(neededFrameSetSecs(targetSecs), SecsDen(midiResolution))

\* float(tick) / self.midiResolution, kept as a fraction
Offset(tick, resolution) == [num |-> tick, den |-> resolution]

\* 0.0
ZeroOffset == [num |-> 0, den |-> 1]

\* == on two such fractions
SameOffset(a, b) == a.num * b.den = b.num * a.den

NoCall == [prevSecs |-> 0, prevWrote |-> 0, seg |-> 0, ret |-> 0,
           startTick |-> 0, endTick |-> 0, prevTempoIndex |-> 0,
           prevTempo |-> 0]

(***************************************************************************)
(* The inputs a TimeCode is constructed on.                                *)
(***************************************************************************)
TickLists ==
    {SortedSeq(S) : S \in {T \in SUBSET (0 .. MaxTick) :
                             Cardinality(T) >= 2 /\ Cardinality(T) <= MaxTicksLen}}

TempoListsOn(S) ==
    {[k \in 1 .. Cardinality(S) |-> <<SortedSeq(S)[k], f[SortedSeq(S)[k]]>>] :
        f \in [S -> Tempos]}

TempoLists ==
    UNION {TempoListsOn(S) : S \in {T \in SUBSET (0 .. MaxTick) :
                                      Cardinality(T) >= 1 /\ Cardinality(T) <= MaxTempos}}

SmallInputs ==
    {[ticks |-> t, tempos |-> tl, resolution |-> r, fps |-> f] :
        t \in TickLists, tl \in TempoLists, r \in Resolutions, f \in FpsChoices}

\* The TimeCode objects src/test.py constructs
ScenarioPlain ==
    [ticks |-> <<0, 384, 768, 1152>>, tempos |-> << <<0, 60>> >>,
     resolution |-> 384, fps |-> 30]

ScenarioCorrection ==
    [ticks |-> <<0, 370, 768, 1152>>, tempos |-> << <<0, 60>> >>,
     resolution |-> 384, fps |-> 30]

ScenarioTempoChange ==
    [ticks |-> <<0, 384, 768, 1152>>,
     tempos |-> << <<0, 60>>, <<384, 90>>, <<768, 60>> >>,
     resolution |-> 384, fps |-> 30]

ScenarioTempoChangeCorrection ==
    [ticks |-> <<0, 370, 768, 1152>>,
     tempos |-> << <<0, 60>>, <<370, 90>>, <<768, 60>> >>,
     resolution |-> 384, fps |-> 30]

ScenarioInputs ==
    {ScenarioPlain, ScenarioCorrection, ScenarioTempoChange,
     ScenarioTempoChangeCorrection}

TimeCodeInputs == SmallInputs \cup ScenarioInputs

\* The input the TimeCode in hand was constructed on
TheInput ==
    [ticks |-> miditicks, tempos |-> temposList,
     resolution |-> midiResolution, fps |-> fps]

\* TimeCode.__init__
TimeCodeInit(inp) ==
    LET c == InitialCursor(inp.tempos, inp.ticks[1])
    IN  /\ miditicks = inp.ticks
        /\ temposList = inp.tempos
        /\ midiResolution = inp.resolution
        /\ fps = inp.fps
        /\ currentTickIndex = 0
        /\ tempoIndex = c.tempoIndex
        /\ tempo = c.tempo
        /\ secs = 0
        /\ wroteFrames = 0
        /\ currentTick = inp.ticks[1]
        /\ nextTick = inp.ticks[2]
        /\ currentOffset = Offset(inp.ticks[1], inp.resolution)
        /\ nextOffset = Offset(inp.ticks[2], inp.resolution)
        /\ observers = <<>>
        /\ tcOp = "init"
        /\ tcCall = NoCall
        /\ framesLog = <<>>
        /\ tcCalls = 0

\* No TimeCode has been constructed
TimeCodeIdle ==
    /\ miditicks = <<>>
    /\ temposList = <<>>
    /\ midiResolution = 0
    /\ fps = 0
    /\ currentTickIndex = 0
    /\ tempoIndex = 0
    /\ tempo = 0
    /\ secs = 0
    /\ wroteFrames = 0
    /\ currentTick = 0
    /\ nextTick = 0
    /\ currentOffset = ZeroOffset
    /\ nextOffset = ZeroOffset
    /\ observers = <<>>
    /\ tcOp = "idle"
    /\ tcCall = NoCall
    /\ framesLog = <<>>
    /\ tcCalls = 0

(***************************************************************************)
(* The media objects a TimeCode notifies (src/ly2video/video.py) and the   *)
(* Observable it inherits from (src/ly2video/utils.py).                    *)
(***************************************************************************)
NoScoreImage ==
    [notesXpositions |-> <<>>, measuresXpositions |-> <<>>,
     currentNotesIndex |-> 0, currentMeasureIndex |-> 0]

\* ScoreImage.__init__: the last note position is repeated
ScoreImageInit(notesXpostions, measuresXpositions) ==
    [notesXpositions |-> IF Len(notesXpostions) > 0
                         THEN Append(notesXpostions, Last(notesXpostions))
                         ELSE notesXpostions,
     measuresXpositions |-> measuresXpositions,
     currentNotesIndex |-> 0,
     currentMeasureIndex |-> 0]

\* ScoreImage.currentXposition
currentXposition(image) ==
    image.notesXpositions[image.currentNotesIndex + 1]

\* ScoreImage.travelToNextNote
travelToNextNote(image) ==
    image.notesXpositions[image.currentNotesIndex + 2]
        - image.notesXpositions[image.currentNotesIndex + 1]

\* Whether the two reads of ScoreImage.makeFrame, currentXposition and
\* travelToNextNote, are inside the list of note positions
inRange(image) ==
    image.currentNotesIndex + 2 <= Len(image.notesXpositions)

\* A bug: the score image left on the note it is on
stayOnNote(image) == image

\* ScoreImage.moveToNextNote
moveToNextNote(image) ==
    LET moved == [image EXCEPT !.currentNotesIndex = @ + 1]
    IN  IF /\ moved.measuresXpositions # <<>>
           /\ currentXposition(moved)
                 > moved.measuresXpositions[moved.currentMeasureIndex + 2]
        THEN [moved EXCEPT !.currentMeasureIndex = @ + 1]
        ELSE moved

\* SlideShow.__init__: startOffset and endOffset
SlideShowInit == [startOffset |-> ZeroOffset, endOffset |-> ZeroOffset]

\* A bug: observers notified before the TimeCode has moved
TimeCodeBeforeMove ==
    [tickIndex |-> currentTickIndex,
     currentOffset |-> currentOffset,
     nextOffset |-> nextOffset]

\* The TimeCode an observer is handed by goToNextNote: notifyObservers is
\* its last statement, the index and both offsets are already those of the
\* new segment
TimeCodeAtNotify ==
    [tickIndex |-> currentTickIndex + 1,
     currentOffset |-> Offset(miditicks[currentTickIndex + 2], midiResolution),
     nextOffset |-> Offset(miditicks[currentTickIndex + 3], midiResolution)]

\* observer.update(timecode): ScoreImage.update moves to the next note,
\* SlideShow.update copies the two offsets
update(observer, media, timecode) ==
    [scoreImage |-> IF observer = "scoreImage"
                    THEN moveToNextNote(media.scoreImage)
                    ELSE media.scoreImage,
     slideShow |-> IF observer = "slideShow"
                   THEN [startOffset |-> timecode.currentOffset,
                         endOffset |-> timecode.nextOffset]
                   ELSE media.slideShow,
     notified |-> Append(media.notified,
                         [observer |-> observer,
                          tickIndex |-> timecode.tickIndex,
                          currentOffset |-> timecode.currentOffset,
                          nextOffset |-> timecode.nextOffset])]

\* Observable.notifyObservers: `for observer in self.__observers`,
\* from the k-th on
RECURSIVE notifyObservers(_, _, _, _)
notifyObservers(registered, k, media, timecode) ==
    IF k > Len(registered) THEN media
    ELSE notifyObservers(registered, k + 1,
                         update(registered[k], media, timecode), timecode)

\* The media objects the drivers construct
MediaObjects == {"scoreImage", "slideShow"}

\* Observable.registerObserver.  Each media object is registered once
\* (VideoFrameWriter.scoreImage, VideoFrameWriter.push, the tests).
registerObserver(observer) ==
    /\ tcOp # "idle"
    /\ \A k \in 1 .. Len(observers) : observers[k] # observer
    /\ observers' = Append(observers, observer)
    /\ UNCHANGED <<miditicks, temposList, midiResolution, fps, currentTickIndex,
                   tempoIndex, tempo, secs, wroteFrames, currentTick, nextTick,
                   currentOffset, nextOffset, tcOp, tcCall, framesLog, tcCalls>>
    /\ UNCHANGED mediaVars

(***************************************************************************)
(* ScoreImage.__cropFrame in cursor scrolling mode (scrollNotes not set),  *)
(* src/ly2video/video.py.  Lengths are pixels.                             *)
(***************************************************************************)
MaxCrops == 3

\* The pictures, frame sizes and margins tried: pictures wider and
\* narrower than the frame, staff lines that start left and right of the
\* left margin, pictures taller and shorter than the frame
PictureWidths == {3, 7, 9}
FrameWidths == {4, 5}
CursorLeftMargins == {1, 2}
CursorRightMargins == {1, 2}
StaffXs == {1, 3}
PictureHeights == {4}
FrameHeights == {2, 3, 6}
Croppables == {0, 1}

\* self.__leftEdge, self.__cropTop, self.__cropBottom: None or a number
Unset == <<>>
SetTo(n) == <<n>>

NoCrop == [index |-> 0, cursorX |-> 0, box |-> <<0, 0, 0, 0>>,
           size |-> <<0, 0>>, from |-> 0, margin |-> 0, first |-> FALSE,
           passed |-> FALSE, clamped |-> FALSE]

\* No ScoreImage is being cropped
CropIdle ==
    [pc |-> "idle", width |-> 0, height |-> 0, picture |-> <<0, 0>>,
     staffX |-> 0, topCroppable |-> 0, bottomCroppable |-> 0,
     leftMargin |-> 0, rightMargin |-> 0, configuredRightMargin |-> 0,
     leftEdge |-> Unset, cropTop |-> Unset, cropBottom |-> Unset,
     calls |-> 0, last |-> NoCrop]

\* ScoreImage.__init__(width, height, picture, [], [], leftMargin,
\* rightMargin) on a picture of the given size, whose staff lines
\* findStaffLinesInImage finds at staffX and whose blank rows at the top
\* and the bottom are topCroppable and bottomCroppable
ScoreImage(width, height, picture, staffX, top, bottom, leftMargin, rightMargin) ==
    [CropIdle EXCEPT !.pc = "ready", !.width = width, !.height = height,
                     !.picture = picture, !.staffX = staffX,
                     !.topCroppable = top, !.bottomCroppable = bottom,
                     !.leftMargin = leftMargin, !.rightMargin = rightMargin,
                     !.configuredRightMargin = rightMargin]

\* int(round(n / 2)): n / 2 is the floor under Python 2 and the float under
\* Python 3, where round goes to the even side
HalfChoices(n) == {n \div 2, RoundHalfEven(n, 2)}

\* A fatal() call: the process exits
fatalCrop(c) == [c EXCEPT !.pc = "fatal"]

\* ScoreImage.__setCropTopAndBottom, with the two halves it rounds
setCropTopAndBottom(c, halfRows, halfHeight) ==
    IF c.cropTop # Unset /\ c.cropBottom # Unset THEN c
    ELSE LET picture_height == c.picture[2]
             bottomY == picture_height - c.bottomCroppable
             nonWhiteCentre == c.topCroppable + halfRows
             cropTop == nonWhiteCentre - halfHeight
             cropBottom == cropTop + c.height
             d == [c EXCEPT !.cropTop = SetTo(cropTop),
                            !.cropBottom = SetTo(cropBottom)]
         IN  IF cropTop < 0 THEN fatalCrop(d)
             ELSE IF cropBottom > picture_height THEN fatalCrop(d)
             ELSE IF cropTop > c.topCroppable THEN fatalCrop(d)
             ELSE IF cropBottom < bottomY THEN fatalCrop(d)
             ELSE d

\* Image.crop((left, upper, right, lower)).size
cropSize(box) == <<box[3] - box[1], box[4] - box[2]>>

\* A bug: the window never clamped to the right end of the picture
neverPastRightEnd(picture_width, leftEdge, width) == FALSE

\* `if picture_width - self.__leftEdge < self.width`
pastRightEnd(picture_width, leftEdge, width) ==
    picture_width - leftEdge < width

\* A bug: the window left where it is when the cursor passes the limit
neverPastLimit(cursorX, width, rightMargin) == FALSE

\* `if cursorX > self.width - self.rightMargin`
pastLimit(cursorX, width, rightMargin) == cursorX > width - rightMargin

\* The else branch of ScoreImage.__cropFrame(index), after
\* __setCropTopAndBottom has returned
cropFrame(c, index) ==
    LET picture_width == c.picture[1]
        first == c.leftEdge = Unset
        leftEdge0 == IF first THEN c.staffX - c.leftMargin ELSE c.leftEdge[1]
        cursorX0 == index - leftEdge0
        passed == pastLimit(cursorX0, c.width, c.rightMargin)
        leftEdge1 == IF passed THEN index - c.leftMargin ELSE leftEdge0
        cursorX == IF passed THEN index - leftEdge1 ELSE cursorX0
        clamped == pastRightEnd(picture_width, leftEdge1, c.width)
        leftEdge2 == IF clamped THEN picture_width - c.width ELSE leftEdge1
        rightEdge == leftEdge2 + c.width
        box == <<leftEdge2, c.cropTop[1], rightEdge, c.cropBottom[1]>>
    IN  [c EXCEPT !.leftEdge = SetTo(leftEdge2),
                  !.rightMargin = IF clamped THEN 0 ELSE @,
                  !.calls = @ + 1,
                  !.last = [index |-> index, cursorX |-> cursorX,
                            box |-> box, size |-> cropSize(box),
                            from |-> leftEdge0, margin |-> c.rightMargin,
                            first |-> first,
                            passed |-> passed, clamped |-> clamped]]

\* scoreImage._ScoreImage__cropFrame(index)
callCropFrame ==
    /\ crop.pc = "ready"
    /\ crop.calls < MaxCrops
    /\ \E index \in 0 .. crop.picture[1],
          halfRows \in HalfChoices(crop.picture[2] - crop.topCroppable
                                   - crop.bottomCroppable),
          halfHeight \in HalfChoices(crop.height) :
          LET c == setCropTopAndBottom(crop, halfRows, halfHeight)
          IN  crop' = IF c.pc = "fatal" THEN c ELSE cropFrame(c, index)

\* No media object has been constructed
MediaIdle ==
    /\ scoreImage = NoScoreImage
    /\ slideShow = SlideShowInit
    /\ notified = <<>>
    /\ crop = CropIdle

\* TimeCode.goToNextNote.  Its callers (VideoFrameWriter.frames, the tests)
\* call it only while a tick follows the next one.
goToNextNote ==
    /\ tcOp # "idle"
    /\ currentTickIndex + 2 < Len(miditicks)
    /\ currentTickIndex' = currentTickIndex + 1
    /\ currentTick' = miditicks[currentTickIndex + 2]
    /\ nextTick' = miditicks[currentTickIndex + 3]
    /\ currentOffset' = Offset(miditicks[currentTickIndex + 2], midiResolution)
    /\ nextOffset' = Offset(miditicks[currentTickIndex + 3], midiResolution)
    /\ LET after == notifyObservers(observers, 1,
                                    [scoreImage |-> scoreImage,
                                     slideShow |-> slideShow,
                                     notified |-> notified],
                                    TimeCodeAtNotify)
       IN  /\ scoreImage' = after.scoreImage
           /\ slideShow' = after.slideShow
           /\ notified' = after.notified
    /\ UNCHANGED crop
    /\ tcOp' = "goTo"
    /\ tcCalls' = 0
    /\ UNCHANGED <<miditicks, temposList, midiResolution, fps, tempoIndex,
                   tempo, secs, wroteFrames, observers, tcCall, framesLog>>

\* TimeCode.nbFramesToNextNote
nbFramesToNextNote ==
    /\ tcOp # "idle"
    /\ tcCalls < MaxCallsPerSegment
    /\ LET r == secsElapsedForTempoChanges(temposList, tempoIndex, tempo,
                                           currentTick, nextTick)
           targetSecs == secs + r.secs
       IN  \E n \in neededFrames(targetSecs) :
              /\ wroteFrames' = wroteFrames + n
              /\ secs' = targetSecs
              /\ tempoIndex' = r.tempoIndex
              /\ tempo' = r.tempo
              /\ tcCall' = [prevSecs |-> secs, prevWrote |-> wroteFrames,
                            seg |-> r.secs, ret |-> n,
                            startTick |-> currentTick, endTick |-> nextTick,
                            prevTempoIndex |-> tempoIndex,
                            prevTempo |-> tempo]
              /\ framesLog' = Append(framesLog, n)
    /\ tcOp' = "nbFrames"
    /\ tcCalls' = tcCalls + 1
    /\ UNCHANGED <<miditicks, temposList, midiResolution, fps,
                   currentTickIndex, currentTick, nextTick, currentOffset,
                   nextOffset, observers>>
    /\ UNCHANGED mediaVars

(***************************************************************************)
(* Two TimeCode objects on the same tempo list, one built on the ticks     *)
(* <<a, b>> and one on <<a, m, b>>, each asked for the elapsed seconds of  *)
(* its segments.                                                           *)
(***************************************************************************)
ProbeIdle ==
    [pc |-> "idle", tl |-> <<>>, a |-> 0, m |-> 0, b |-> 0,
     x |-> [secs |-> 0, tempoIndex |-> 0, tempo |-> 0],
     y |-> [secs |-> 0, tempoIndex |-> 0, tempo |-> 0],
     whole |-> 0, left |-> 0, right |-> 0,
     wholeDone |-> FALSE, leftDone |-> FALSE, rightDone |-> FALSE]

ProbeInputs ==
    {[tl |-> tl, a |-> a, m |-> m, b |-> b] :
        tl \in TempoLists, a \in 0 .. MaxTick, m \in 0 .. MaxTick, b \in 0 .. MaxTick}

ProbeInit(inp) ==
    probe = [pc |-> "run", tl |-> inp.tl, a |-> inp.a, m |-> inp.m, b |-> inp.b,
             x |-> InitialCursor(inp.tl, inp.a),
             y |-> InitialCursor(inp.tl, inp.a),
             whole |-> 0, left |-> 0, right |-> 0,
             wholeDone |-> FALSE, leftDone |-> FALSE, rightDone |-> FALSE]

\* x.secsElapsedForTempoChanges(a, b)
callWhole ==
    /\ probe.pc = "run"
    /\ ~probe.wholeDone
    /\ LET r == secsElapsedForTempoChanges(probe.tl, probe.x.tempoIndex,
                                           probe.x.tempo, probe.a, probe.b)
       IN  probe' = [probe EXCEPT !.x = r, !.whole = r.secs, !.wholeDone = TRUE]
    /\ UNCHANGED <<tcVars, mediaVars, writer, query, alVars, mdVars, lyVars>>

\* y.secsElapsedForTempoChanges(a, m)
callLeft ==
    /\ probe.pc = "run"
    /\ ~probe.leftDone
    /\ LET r == secsElapsedForTempoChanges(probe.tl, probe.y.tempoIndex,
                                           probe.y.tempo, probe.a, probe.m)
       IN  probe' = [probe EXCEPT !.y = r, !.left = r.secs, !.leftDone = TRUE]
    /\ UNCHANGED <<tcVars, mediaVars, writer, query, alVars, mdVars, lyVars>>

\* y.secsElapsedForTempoChanges(m, b), after the call for (a, m)
callRight ==
    /\ probe.pc = "run"
    /\ probe.leftDone
    /\ ~probe.rightDone
    /\ LET r == secsElapsedForTempoChanges(probe.tl, probe.y.tempoIndex,
                                           probe.y.tempo, probe.m, probe.b)
       IN  probe' = [probe EXCEPT !.y = r, !.right = r.secs, !.rightDone = TRUE]
    /\ UNCHANGED <<tcVars, mediaVars, writer, query, alVars, mdVars, lyVars>>

(***************************************************************************)
(* getNoteIndices (src/ly2video/cli.py).                                   *)
(***************************************************************************)

\* Moments are counted in units of 1/MomentDen of a whole note
MomentDen == 2 * 4

\* grobTick = int(round(moment * midiResolution * 4))
grobTick(g, resolution) == RoundHalfEven(g.moment * resolution * 4, MomentDen)

\* Pitches are counted in units of 1/BendRange of a semitone
BendRange == 4096

\* Two kinds of Python value used as dict keys: a number, and the NoteOn
\* event of a note number on a tick
NumberKey(n) == <<"number", n>>

EventKey(tick, note) == <<"NoteOn", tick, note>>

\* grobPitchValue: the absolute pitch of the anchor
grobPitchValue(g) == g.pitch * BendRange

C_MAJOR_SCALE_STEPS == <<0, 2, 4, 5, 7, 9, 11>>

NOTE_NAMES ==
    <<"C", "C#/Db", "D", "D#/Eb", "E", "F", "F#/Gb", "G", "G#/Ab", "A",
      "A#/Bb", "B">>

NOTE_ALTERATIONS ==
    <<"eses", "eseh", "es", "eh", "", "ih", "is", "isih", "isis">>

\* str.lower() on the entries of NOTE_NAMES
lower(name) ==
    [n \in {NOTE_NAMES[k] : k \in 1 .. 12} |->
        CHOOSE l \in {"c", "c#/db", "d", "d#/eb", "e", "f", "f#/gb", "g",
                       "g#/ab", "a", "a#/bb", "b"} :
            \E k \in 1 .. 12 :
                /\ NOTE_NAMES[k] = n
                /\ l = <<"c", "c#/db", "d", "d#/eb", "e", "f", "f#/gb", "g",
                         "g#/ab", "a", "a#/bb", "b">>[k]][name]

\* The pitch components the trace line of an anchor gave: octave 0 is c',
\* notename 0..6 is c..b, alteration in quarters of a whole tone
LocationOfPitch(pitch) ==
    [octave |-> (pitch \div 12) - 5,
     notename |-> CHOOSE n \in 0 .. 6 :
                     C_MAJOR_SCALE_STEPS[n + 1] = pitch % 12,
     alteration4 |-> 0]

\* noteToken(octave, notename, alteration): the note name, the alteration
\* suffix and the octave marks, as the list of its pieces
noteToken(octave, notename, alteration4) ==
    <<lower(NOTE_NAMES[C_MAJOR_SCALE_STEPS[notename + 1] + 1]),
      NOTE_ALTERATIONS[4 + alteration4 + 1]>>
    \o (IF octave < -1
        THEN [k \in 1 .. (-octave - 1) |-> ","]
        ELSE [k \in 1 .. (octave + 1) |-> "'"])

\* grobPitchToken of lySrcLocation.getAbsolutePitch()
grobPitchToken(g) ==
    LET loc == LocationOfPitch(g.pitch)
    IN  noteToken(loc.octave, loc.notename, loc.alteration4)

\* `if grobPitchToken == 'q'`.  noteToken builds the token from a note
\* name, so this is false for every anchor and the branch under it
\* (cli.py:642-645: the bug for a missing last chord, and
\* grobPitchValue = lastChord[0]) is never entered.
isRepeatedChordToken(g) == grobPitchToken(g) = <<"q">>

\* getMidiPitches: the keys of the dict it builds from the note numbers of
\* the events of a tick.  `pitch in pitchBends` looks the note number up in
\* a dict whose keys are NoteOn events.
getMidiPitches(events, bends) ==
    {IF NumberKey(note) \in DOMAIN bends
     THEN note * BendRange + bends[NumberKey(note)]
     ELSE note * BendRange : note \in events}

\* A bug: the exception for the first MIDI event left out
neverFirstMidiEvent(mi) == FALSE

\* A bug: the exception for the first MIDI event granted to every event
alwaysFirstMidiEvent(mi) == TRUE

\* `if midiIndex == 0`: the first MIDI event cannot be skipped
isFirstMidiEvent(mi) == mi = 0

\* A bug: one sync point taken to be enough
noSyncPoints(indices) == Len(indices) < 1

\* `if len(alignedNoteIndices) < 2`
notEnoughSyncPoints(indices) == Len(indices) < 2

\* The threshold of alignIndicesWithTicks, the alignment loop of the
\* single-file variant: `if consecutiveTicksSkipped >= 5: fatal(...)`
SkipCeiling == 5

NoChord == [form |-> "empty", notes |-> {}]

\* lastChord after a sync point: the pitch dict, or the list of
\* str(event.note) that replaced midiPitches on a pitch mismatch
chordOf(pitchesAtTick, matched) ==
    IF Cardinality(pitchesAtTick) > 1
    THEN [form |-> IF matched THEN "pitches" ELSE "strings",
          notes |-> pitchesAtTick]
    ELSE NoChord

NoPrev == [i |-> 0, midiIndex |-> 0, midiTicks |-> <<>>,
           alignedNoteIndices |-> <<>>, lastChord |-> NoChord]

Here == [i |-> i, midiIndex |-> midiIndex, midiTicks |-> midiTicks,
         alignedNoteIndices |-> alignedNoteIndices, lastChord |-> lastChord]

\* ---- inputs ----
PixelX(moment) == 10 + 3 * moment

\* An anchor.  q tells whether the score has a repeated chord `q` at the
\* anchor's place; the trace line of the anchor carries the pitch of its
\* note head and nothing of q, so getNoteIndices never sees it.
Grob(moment, pitch, q) ==
    [moment |-> moment, x |-> PixelX(moment), pitch |-> pitch, q |-> q]

GrobListsOn(S) ==
    {[k \in 1 .. Cardinality(S) |->
        Grob(SortedSeq(S)[k], f[SortedSeq(S)[k]], FALSE)] : f \in [S -> Pitches]}

GrobLists ==
    UNION {GrobListsOn(S) : S \in {T \in SUBSET (0 .. MaxMoment) :
                                     Cardinality(T) >= 1 /\ Cardinality(T) <= MaxGrobs}}

MaxOf(S) == CHOOSE x \in S : \A y \in S : y <= x

\* What getMidiEvents returns: the sorted ticks that hold notes followed by
\* the largest end-of-track tick.  An end-of-track event is the last event
\* of its track, so that tick is the tick of the last note (a note-on on
\* the end-of-track tick) or a later one; it is -1 when no track ends with
\* an end-of-track event.
\* With them comes the pitchBends dict of getNotesInTicks: no bend, or (on
\* the shorter tick lists) one NoteOn event with the bend that preceded it.
BentTickCounts == {1, 2}

BendsOn(S) ==
    {<<>>} \cup (IF Cardinality(S) \in BentTickCounts
                 THEN {(EventKey(t, n) :> b) : t \in S, n \in Pitches, b \in Bends}
                 ELSE {})

MidiInputsOn(S) ==
    {md \in {[ticks |-> SortedSeq(S) \o <<e>>, notes |-> f, bends |-> b] :
               f \in [S -> PitchSets],
               e \in IF S = {} THEN {-1, 0} ELSE {MaxOf(S), MaxOf(S) + 1},
               b \in BendsOn(S)} :
        \A key \in DOMAIN md.bends : key[3] \in md.notes[key[2]]}

MidiInputs == UNION {MidiInputsOn(S) : S \in SUBSET (0 .. MaxMidiTick)}

\* The arguments of one call of getNoteIndices
AlignInput(g, md, r) == [grobs |-> g, midi |-> md, resolution |-> r]

\* A note on every tick 0 .. n-1, and anchors only at moment 0 and at the
\* moment of tick n
LongAlignInputs ==
    {[grobs |-> g,
      midi |-> [ticks |-> [k \in 1 .. n + 1 |-> k - 1],
                notes |-> [t \in 0 .. n - 1 |-> {60}],
                bends |-> <<>>],
      resolution |-> 1] :
        n \in 1 .. LongTicks,
        g \in { << Grob(0, p, FALSE), Grob(2 * LongTicks, 60, FALSE) >> :
                p \in Pitches }}

\* Scores with repeated chords: a chord or a note on tick 0, a note or a
\* chord on tick 1, a chord on tick 2, and an anchor on each of them, any
\* of which may stand for a `q`
ChordAlignInputs ==
    {[grobs |-> [k \in 1 .. 3 |-> Grob(2 * (k - 1), f[k], k \in Q)],
      midi |-> [ticks |-> <<0, 1, 2, 3>>,
                notes |-> [t \in 0 .. 2 |-> IF t \in C THEN {60, 62} ELSE {60}],
                bends |-> <<>>],
      resolution |-> 1] :
        f \in [1 .. 3 -> Pitches], Q \in SUBSET (1 .. 3),
        C \in {{0, 2}, {1, 2}, {0, 1, 2}}}

NoFirstRun == [done |-> FALSE, indices |-> <<>>, ticks |-> <<>>]

AlignInit(inp) ==
    /\ grobs = inp.grobs
    /\ alResolution = inp.resolution
    /\ midiTicks = inp.midi.ticks
    /\ notesInTicks = inp.midi.notes
    /\ pitchBends = inp.midi.bends
    /\ origTicks = inp.midi.ticks
    /\ i = 0
    /\ midiIndex = 0
    /\ alignedNoteIndices = <<>>
    /\ ticksSkipped = 0
    /\ lastChord = NoChord
    /\ alpc = "loop"
    /\ alBug = ""
    /\ alOp = "start"
    /\ alPrev = NoPrev
    /\ syncTicks = <<>>
    /\ consecutiveSkips = 0
    /\ firstRun = NoFirstRun

AlignIdle ==
    /\ grobs = <<>>
    /\ alResolution = 0
    /\ midiTicks = <<>>
    /\ notesInTicks = <<>>
    /\ pitchBends = <<>>
    /\ origTicks = <<>>
    /\ i = 0
    /\ midiIndex = 0
    /\ alignedNoteIndices = <<>>
    /\ ticksSkipped = 0
    /\ lastChord = NoChord
    /\ alpc = "idle"
    /\ alBug = ""
    /\ alOp = "idle"
    /\ alPrev = NoPrev
    /\ syncTicks = <<>>
    /\ consecutiveSkips = 0
    /\ firstRun = NoFirstRun

\* ---- the loop of getNoteIndices, one action per path through its body ----
InLoop == alpc = "loop" /\ i < Len(grobs)

HasTick == InLoop /\ midiIndex < Len(midiTicks)

midiTick == midiTicks[midiIndex + 1]

HasNotes == HasTick /\ midiTick \in DOMAIN notesInTicks

theGrobTick == grobTick(grobs[i + 1], alResolution)

\* `while i < len(leftmostGrobsByMoment)` is false
leaveLoop ==
    /\ alpc = "loop"
    /\ i >= Len(grobs)
    /\ alpc' = "after"
    /\ alOp' = "leaveLoop"
    /\ alPrev' = Here
    /\ UNCHANGED <<firstRun, grobs, alResolution, midiTicks, notesInTicks, pitchBends, origTicks, i,
                   midiIndex, alignedNoteIndices, ticksSkipped, lastChord,
                   alBug, syncTicks, consecutiveSkips>>

\* `if midiIndex == len(midiTicks)`: warn and break
ranOutOfTicks ==
    /\ InLoop
    /\ midiIndex = Len(midiTicks)
    /\ alpc' = "after"
    /\ alOp' = "ranOutOfTicks"
    /\ alPrev' = Here
    /\ UNCHANGED <<firstRun, grobs, alResolution, midiTicks, notesInTicks, pitchBends, origTicks, i,
                   midiIndex, alignedNoteIndices, ticksSkipped, lastChord,
                   alBug, syncTicks, consecutiveSkips>>

\* `if midiTick not in notesInTicks`: the tick of the final EndOfTrackEvent
finalTick ==
    /\ HasTick
    /\ midiTick \notin DOMAIN notesInTicks
    /\ midiIndex' = midiIndex + 1
    /\ IF midiIndex + 1 < Len(midiTicks)
       THEN alpc' = "bug" /\ alBug' = "No notes in tick"
       ELSE UNCHANGED <<alpc, alBug>>
    /\ alOp' = "finalTick"
    /\ alPrev' = Here
    /\ UNCHANGED <<firstRun, grobs, alResolution, midiTicks, notesInTicks, pitchBends, origTicks, i,
                   alignedNoteIndices, ticksSkipped, lastChord, syncTicks,
                   consecutiveSkips>>

\* `if midiTick < grobTick`: skip the MIDI tick
skipTick ==
    /\ HasNotes
    /\ midiTick < theGrobTick
    /\ ticksSkipped' = ticksSkipped + 1
    /\ midiTicks' = pop(midiTicks, midiIndex)
    /\ consecutiveSkips' = consecutiveSkips + 1
    /\ alOp' = "skipTick"
    /\ alPrev' = Here
    /\ UNCHANGED <<firstRun, grobs, alResolution, notesInTicks, pitchBends, origTicks, i, midiIndex,
                   alignedNoteIndices, lastChord, alpc, alBug, syncTicks>>

\* A bug: the tick dropped along with the grob
skipGrobDroppingTick ==
    /\ HasNotes
    /\ theGrobTick < midiTick
    /\ i' = i + 1
    /\ midiTicks' = pop(midiTicks, midiIndex)
    /\ ticksSkipped' = ticksSkipped + 1
    /\ consecutiveSkips' = consecutiveSkips + 1
    /\ alOp' = "skipGrob"
    /\ alPrev' = Here
    /\ UNCHANGED <<firstRun, grobs, alResolution, notesInTicks, pitchBends, origTicks,
                   midiIndex, alignedNoteIndices, lastChord, alpc, alBug,
                   syncTicks>>

\* `i += 1` then `if grobTick < midiTick`: skip the grob
skipGrob ==
    /\ HasNotes
    /\ theGrobTick < midiTick
    /\ i' = i + 1
    /\ alOp' = "skipGrob"
    /\ alPrev' = Here
    /\ UNCHANGED <<firstRun, grobs, alResolution, midiTicks, notesInTicks, pitchBends, origTicks,
                   midiIndex, alignedNoteIndices, ticksSkipped, lastChord,
                   alpc, alBug, syncTicks, consecutiveSkips>>

\* `i += 1`, same tick, `grobPitchValue not in midiPitches` and not the
\* first MIDI event: "Skipping grob and tick"
skipGrobAndTick ==
    /\ HasNotes
    /\ theGrobTick = midiTick
    /\ grobPitchValue(grobs[i + 1])
          \notin getMidiPitches(notesInTicks[midiTick], pitchBends)
    /\ ~isFirstMidiEvent(midiIndex)
    /\ i' = i + 1
    /\ ticksSkipped' = ticksSkipped + 1
    /\ midiTicks' = pop(midiTicks, midiIndex)
    /\ consecutiveSkips' = consecutiveSkips + 1
    /\ alOp' = "skipGrobAndTick"
    /\ alPrev' = Here
    /\ UNCHANGED <<firstRun, grobs, alResolution, notesInTicks, pitchBends, origTicks, midiIndex,
                   alignedNoteIndices, lastChord, alpc, alBug, syncTicks>>

\* `i += 1`, same tick, and the pitch matches or this is the first MIDI
\* event ("Starting by hovering over the first grob"): a sync point
syncPoint ==
    /\ HasNotes
    /\ theGrobTick = midiTick
    /\ LET matched == grobPitchValue(grobs[i + 1])
                         \in getMidiPitches(notesInTicks[midiTick], pitchBends)
       IN  /\ matched \/ isFirstMidiEvent(midiIndex)
           /\ lastChord' = chordOf(notesInTicks[midiTick], matched)
           /\ alOp' = IF matched THEN "match" ELSE "firstUnmatched"
    /\ i' = i + 1
    /\ midiIndex' = midiIndex + 1
    /\ alignedNoteIndices' = Append(alignedNoteIndices, grobs[i + 1].x)
    /\ syncTicks' = Append(syncTicks, midiTick)
    /\ consecutiveSkips' = 0
    /\ alPrev' = Here
    /\ UNCHANGED <<firstRun, grobs, alResolution, midiTicks, notesInTicks, pitchBends, origTicks,
                   ticksSkipped, alpc, alBug>>

\* after the loop: `if len(alignedNoteIndices) < 2: bug(...)`, else return
finish ==
    /\ alpc = "after"
    /\ IF notEnoughSyncPoints(alignedNoteIndices)
       THEN alpc' = "bug" /\ alBug' = "Not enough synchronization points found"
       ELSE alpc' = "returned" /\ alBug' = alBug
    /\ alOp' = "finish"
    /\ alPrev' = Here
    /\ UNCHANGED <<firstRun, grobs, alResolution, midiTicks, notesInTicks, pitchBends, origTicks, i,
                   midiIndex, alignedNoteIndices, ticksSkipped, lastChord,
                   syncTicks, consecutiveSkips>>

\* getNoteIndices called again after it has returned, with the same
\* anchors, notes and pitch bends and the tick list the first call left
\* behind
callAgain ==
    /\ alpc = "returned"
    /\ ~firstRun.done
    /\ firstRun' = [done |-> TRUE, indices |-> alignedNoteIndices,
                    ticks |-> midiTicks]
    /\ origTicks' = midiTicks
    /\ i' = 0
    /\ midiIndex' = 0
    /\ alignedNoteIndices' = <<>>
    /\ ticksSkipped' = 0
    /\ lastChord' = NoChord
    /\ alpc' = "loop"
    /\ alBug' = ""
    /\ alOp' = "start"
    /\ alPrev' = NoPrev
    /\ syncTicks' = <<>>
    /\ consecutiveSkips' = 0
    /\ UNCHANGED <<grobs, alResolution, midiTicks, notesInTicks, pitchBends>>

(***************************************************************************)
(* VideoFrameWriter.frames (src/ly2video/video.py) and the loop of         *)
(* TimeCodeTest.testCompleteFollowing (src/test.py): two drivers of a      *)
(* TimeCode with media objects registered as observers.                    *)
(***************************************************************************)
WriterIdle == [pc |-> "idle", frameSets |-> <<>>, frameNum |-> 0]

\* The note positions handed to ScoreImage for a tick list of n entries:
\* one per sync point (cli.py main: the tick list ends with the
\* end-of-track tick) or one per tick (src/test.py), strictly increasing
\* or with the first two equal
NotePositions(n) ==
    {[k \in 1 .. len |-> PixelX(IF flat /\ k > 1 THEN k - 2 ELSE k - 1)] :
        len \in {n - 1, n}, flat \in BOOLEAN}

\* No bar positions (the default), or bars before the first note, after
\* the second and after the last
MeasurePositions ==
    {<<>>, <<PixelX(0) - 1, PixelX(1) + 1, PixelX(MaxTicksLen) + 1>>}

WriterInputs ==
    {[timecode |-> tc, notesX |-> nx, measuresX |-> mx] :
        tc \in {inp \in TimeCodeInputs : Len(inp.tempos) = 1},
        nx \in UNION {NotePositions(n) : n \in 2 .. MaxTicksLen},
        mx \in MeasurePositions}

\* VideoFrameWriter.__init__ and the media objects of cli.py main, or the
\* setUp and the first lines of testCompleteFollowing
WriterInit(inp) ==
    /\ TimeCodeInit(inp.timecode)
    /\ scoreImage = ScoreImageInit(inp.notesX, inp.measuresX)
    /\ slideShow = SlideShowInit
    /\ notified = <<>>
    /\ crop = CropIdle
    /\ writer = [pc |-> "setup", frameSets |-> <<>>, frameNum |-> 0]

\* frameWriter.scoreImage = ..., frameWriter.push(...), or
\* timecode.registerObserver(...) in the tests
register ==
    /\ writer.pc = "setup"
    /\ \E observer \in MediaObjects : registerObserver(observer)
    /\ UNCHANGED writer

\* the loop is entered
start ==
    /\ writer.pc = "setup"
    /\ writer' = [writer EXCEPT !.pc = "loop"]
    /\ UNCHANGED <<tcVars, mediaVars>>

\* `while not self.__timecode.atEnd()` is true: nbFramesToNextNote and the
\* for loop that yields the frames.  With no frame to make, `else:
\* self.lastFrame = frame` reads a local that was never bound unless an
\* earlier pass made a frame.  With frames to make, the first makeFrame
\* reads the current and the next note position of the score image.
renderFrameSet ==
    /\ writer.pc = "loop"
    /\ ~atEnd
    /\ nbFramesToNextNote
    /\ LET n == Last(framesLog')
       IN  IF n > 0 /\ ~inRange(scoreImage)
           THEN writer' = [writer EXCEPT !.pc = "IndexError"]
           ELSE writer' = [pc |-> IF n <= 0 /\ writer.frameNum = 0
                                  THEN "UnboundLocalError" ELSE "advance",
                           frameSets |-> Append(writer.frameSets,
                                                [left |-> currentTick,
                                                 right |-> nextTick,
                                                 frames |-> n]),
                           frameNum |-> writer.frameNum +
                                            IF n > 0 THEN n ELSE 0]

\* The tempo lists of the runs of main
PipelineTempos == {<< <<0, 60>> >>, << <<0, 60>>, <<1, 120>> >>}

\* Notes on every tick 0 .. n-1 and anchors on the ticks 0 and 1 only
TrailingAlignInputs ==
    {[grobs |-> << Grob(0, 60, FALSE), Grob(2, 60, FALSE) >>,
      midi |-> [ticks |-> [k \in 1 .. n + 1 |-> k - 1],
                notes |-> [t \in 0 .. n - 1 |-> {60}],
                bends |-> <<>>],
      resolution |-> 1] : n \in 2 .. LongTicks}

\* main after getNoteIndices has returned: VideoFrameWriter.__init__ makes a
\* TimeCode on the tick list getNoteIndices has trimmed, and the setter of
\* frameWriter.scoreImage registers a ScoreImage made on the list returned
construct ==
    /\ alpc = "returned"
    /\ writer.pc = "idle"
    /\ \E tl \in PipelineTempos, f \in FpsChoices :
          LET c == InitialCursor(tl, midiTicks[1])
          IN  /\ miditicks' = midiTicks
              /\ temposList' = tl
              /\ midiResolution' = alResolution
              /\ fps' = f
              /\ currentTickIndex' = 0
              /\ tempoIndex' = c.tempoIndex
              /\ tempo' = c.tempo
              /\ secs' = 0
              /\ wroteFrames' = 0
              /\ currentTick' = midiTicks[1]
              /\ nextTick' = midiTicks[2]
              /\ currentOffset' = Offset(midiTicks[1], alResolution)
              /\ nextOffset' = Offset(midiTicks[2], alResolution)
              /\ observers' = <<"scoreImage">>
              /\ tcOp' = "init"
              /\ tcCall' = NoCall
              /\ framesLog' = <<>>
              /\ tcCalls' = 0
    /\ scoreImage' = ScoreImageInit(alignedNoteIndices, <<>>)
    /\ slideShow' = SlideShowInit
    /\ notified' = <<>>
    /\ UNCHANGED crop
    /\ writer' = [pc |-> "loop", frameSets |-> <<>>, frameNum |-> 0]

\* `self.__timecode.goToNextNote()` at the end of the loop body
advance ==
    /\ writer.pc = "advance"
    /\ goToNextNote
    /\ writer' = [writer EXCEPT !.pc = "loop"]

\* `while not self.__timecode.atEnd()` is false
framesDone ==
    /\ writer.pc = "loop"
    /\ atEnd
    /\ writer' = [writer EXCEPT !.pc = "done"]
    /\ UNCHANGED <<tcVars, mediaVars>>

\* `while not self.timecode.atEnd(): self.timecode.goToNextNote()`
follow ==
    /\ writer.pc = "loop"
    /\ ~atEnd
    /\ goToNextNote
    /\ UNCHANGED writer

(***************************************************************************)
(* One TimeCode asked for the elapsed seconds of one interval after        *)
(* another, as TimeCodeTest.testSecsElapsedForTempoChanges does.           *)
(***************************************************************************)
NoQuery == [a |-> 0, b |-> 0, secs |-> 0,
            before |-> [secs |-> 0, tempoIndex |-> 0, tempo |-> 0]]

QueryIdle ==
    [pc |-> "idle", tl |-> <<>>, resolution |-> 0, intervals |-> {}, limit |-> 0,
     cursor |-> [secs |-> 0, tempoIndex |-> 0, tempo |-> 0],
     asked |-> <<>>, results |-> <<>>, last |-> NoQuery]

Intervals(points) == {iv \in points \X points : iv[1] < iv[2]}

\* The TimeCode of testSecsElapsedForTempoChanges and the ticks it asks about
ScenarioQueries ==
    [tl |-> << <<0, 60>>, <<1152, 90>>, <<3456, 60>> >>, resolution |-> 384,
     intervals |-> Intervals({0, 1152, 3456, 4608}), limit |-> 5]

\* The calls of testSecsElapsedForTempoChanges, in its order
ScenarioScript ==
    << <<0, 1152>>, <<0, 3456>>, <<1152, 3456>>, <<3456, 4608>>, <<0, 4608>> >>

QueryInputs ==
    {[tl |-> tl, resolution |-> r, intervals |-> Intervals(0 .. MaxTick),
      limit |-> MaxQueries] : tl \in TempoLists, r \in Resolutions}
    \cup {ScenarioQueries}

\* TimeCode.__init__ on a tick list that starts at tick 0
QueryInit(inp) ==
    query = [pc |-> "run", tl |-> inp.tl, resolution |-> inp.resolution,
             intervals |-> inp.intervals, limit |-> inp.limit,
             cursor |-> InitialCursor(inp.tl, 0),
             asked |-> <<>>, results |-> <<>>, last |-> NoQuery]

\* timecode.secsElapsedForTempoChanges(a, b)
ask ==
    /\ query.pc = "run"
    /\ Len(query.asked) < query.limit
    /\ \E iv \in query.intervals :
          LET r == secsElapsedForTempoChanges(query.tl, query.cursor.tempoIndex,
                                              query.cursor.tempo, iv[1], iv[2])
          IN  query' = [query EXCEPT !.cursor = r,
                                     !.asked = Append(@, iv),
                                     !.results = Append(@, r.secs),
                                     !.last = [a |-> iv[1], b |-> iv[2],
                                               secs |-> r.secs,
                                               before |-> query.cursor]]
    /\ UNCHANGED <<tcVars, mediaVars, writer, probe, alVars, mdVars, lyVars>>

\* TimeCode.secsElapsedForTempoChanges(startTick, endTick) called on the
\* TimeCode by another caller than nbFramesToNextNote
callSecsElapsed ==
    /\ tcOp # "idle"
    /\ \E iv \in Intervals(0 .. MaxTick) :
          LET r == secsElapsedForTempoChanges(temposList, tempoIndex, tempo,
                                              iv[1], iv[2])
          IN  /\ tempoIndex' = r.tempoIndex
              /\ tempo' = r.tempo
              /\ tcCall' = [prevSecs |-> secs, prevWrote |-> wroteFrames,
                            seg |-> r.secs, ret |-> 0,
                            startTick |-> iv[1], endTick |-> iv[2],
                            prevTempoIndex |-> tempoIndex,
                            prevTempo |-> tempo]
    /\ tcOp' = "secsElapsed"
    /\ UNCHANGED <<miditicks, temposList, midiResolution, fps,
                   currentTickIndex, currentTick, nextTick, currentOffset,
                   nextOffset, observers, secs, wroteFrames, framesLog,
                   tcCalls>>
    /\ UNCHANGED mediaVars

(***************************************************************************)
(* MIDI extraction: getMidiEvents, make_time_abs and getNotesInTicks       *)
(* (cli.py).  A file is its list of tracks, a track its list of events; an *)
(* event has the fields the code reads.  The message class comes from the  *)
(* MIDI library, which is not part of the source: whether a message has a  *)
(* .tick attribute (cli.py:433 reads it; the code sets and reads .time     *)
(* everywhere else) and whether it can be a dict key (cli.py:457) is       *)
(* chosen once per run.                                                    *)
(***************************************************************************)

MaxTrackEvents == 2

Deltas == {0, 1}

Velocities == {0, 64}

None == [type |-> "None"]

NoteOn(time, note, velocity) ==
    [type |-> "note_on", time |-> time, note |-> note, velocity |-> velocity,
     pitch |-> 0]

PitchWheel(time, pitch) ==
    [type |-> "pitchwheel", time |-> time, note |-> 0, velocity |-> 0,
     pitch |-> pitch]

OtherEvent(type, time) ==
    [type |-> type, time |-> time, note |-> 0, velocity |-> 0, pitch |-> 0]

\* The events of a track before its end_of_track, times as deltas
TrackEvents ==
    {NoteOn(d, 60, v) : d \in Deltas, v \in Velocities}
    \cup {PitchWheel(d, p) : d \in Deltas, p \in Bends \cup {0}}
    \cup {OtherEvent("control_change", d) : d \in Deltas}

Tracks(n) ==
    {body \o <<OtherEvent("end_of_track", d)>> :
        body \in UNION {[1 .. m -> TrackEvents] : m \in 0 .. n},
        d \in Deltas}

\* tracks[0]: the tempo track, which getNotesInTicks and the end-of-track
\* search leave out whatever it holds
ConductorTracks ==
    {<<OtherEvent("set_tempo", 0), OtherEvent("end_of_track", 0)>>,
     <<OtherEvent("set_tempo", 0), NoteOn(0, 60, 64),
       OtherEvent("end_of_track", 1 + MaxTrackEvents)>>}

\* midiFile.tracks[1:]: no track, one, or one and a short second one
OtherTracks(n) ==
    {<<>>}
    \cup {<<t>> : t \in Tracks(n)}
    \cup {<<t, u>> : t \in Tracks(n), u \in Tracks(1)}

RECURSIVE AbsTime(_, _)
AbsTime(track, j) ==
    IF j = 0 THEN 0 ELSE AbsTime(track, j - 1) + track[j].time

make_time_abs(tracks) ==
    [t \in 1 .. Len(tracks) |->
        [j \in 1 .. Len(tracks[t]) |->
            [tracks[t][j] EXCEPT !.time = AbsTime(tracks[t], j)]]]

\* The loop of getMidiEvents over midiFile.tracks[1:]
endOfTrack(tracks) ==
    MaxOf({-1} \cup {tracks[t][Len(tracks[t])].time :
                        t \in {u \in 2 .. Len(tracks) :
                                 tracks[u][Len(tracks[u])].type = "end_of_track"}})

ExtractLocals(pc) ==
    [pc |-> pc, i |-> 0, k |-> 0, pendingPitchBend |-> None,
     notesInTicks |-> <<>>, pitchBends |-> <<>>, midiTicks |-> <<>>,
     tickAttribute |-> FALSE, hashable |-> FALSE,
     op |-> "none", event |-> None, before |-> None]

MidiIdle ==
    /\ midiFile = <<>>
    /\ extract = ExtractLocals("idle")

MidiInit(file) ==
    /\ midiFile = file
    /\ extract = ExtractLocals("open")

\* track = midiFile.tracks[i], event = the k-th of its events
CurrentTrack == midiFile[extract.i + 1]

CurrentEvent == CurrentTrack[extract.k]

AtEvent ==
    /\ extract.pc = "events"
    /\ extract.k <= Len(CurrentTrack)

\* if pendingPitchBend:
Pending == extract.pendingPitchBend # None

\* None of the three checks under `if pendingPitchBend` stops the run
ChecksPassed ==
    Pending =>
        /\ extract.tickAttribute
        /\ extract.pendingPitchBend.time = CurrentEvent.time
        /\ CurrentEvent.type = "note_on"
        /\ CurrentEvent.velocity # 0

\* The step on the current event, with what it was taken on
Took(op, locals) ==
    extract' = [locals EXCEPT !.op = op, !.event = CurrentEvent,
                              !.before = extract.pendingPitchBend]

Stopped(op, pc) ==
    /\ Took(op, [extract EXCEPT !.pc = pc])
    /\ UNCHANGED midiFile

Continue(op, locals) ==
    /\ Took(op, [locals EXCEPT !.k = @ + 1])
    /\ UNCHANGED midiFile

\* notesInTicks[tick].append(event), the list created when missing
appendNote(notes, event) ==
    [t \in DOMAIN notes \cup {event.time} |->
        IF t = event.time
        THEN (IF t \in DOMAIN notes THEN notes[t] ELSE <<>>) \o <<event>>
        ELSE notes[t]]

\* pitchBends[event] = pendingPitchBend
attachBend(bends, event, bend) ==
    [key \in DOMAIN bends \cup {EventKey(event.time, event.note)} |->
        IF key = EventKey(event.time, event.note) THEN bend.pitch
        ELSE bends[key]]

\* mido.MidiFile(midiFileName); make_time_abs(midiFile); and the first
\* track of getNotesInTicks
openMidi ==
    /\ extract.pc = "open"
    /\ midiFile' = make_time_abs(midiFile)
    /\ \E ta \in BOOLEAN, h \in BOOLEAN :
          extract' = [extract EXCEPT !.pc = "tracks", !.i = 1,
                                     !.tickAttribute = ta, !.hashable = h,
                                     !.op = "openMidi"]

\* for i in range(1, len(midiFile.tracks)): pendingPitchBend = None
enterTrack ==
    /\ extract.pc = "tracks"
    /\ extract.i < Len(midiFile)
    /\ extract' = [extract EXCEPT !.pc = "events", !.k = 1,
                                  !.pendingPitchBend = None,
                                  !.op = "enterTrack"]
    /\ UNCHANGED midiFile

\* `for event in track` is exhausted
leaveTrack ==
    /\ extract.pc = "events"
    /\ extract.k > Len(CurrentTrack)
    /\ extract' = [extract EXCEPT !.pc = "tracks", !.i = @ + 1,
                                  !.op = "leaveTrack"]
    /\ UNCHANGED midiFile

\* pendingPitchBend.tick on a message that has no such attribute
tickAttributeError ==
    /\ AtEvent
    /\ Pending
    /\ ~extract.tickAttribute
    /\ Stopped("tickAttributeError", "AttributeError")

\* bug("Found orphaned pitch bend ...")
orphanedPitchBend ==
    /\ AtEvent
    /\ Pending
    /\ extract.tickAttribute
    /\ extract.pendingPitchBend.time # CurrentEvent.time
    /\ Stopped("orphanedPitchBend", "bug")

\* bug("Pitch bend was not followed by NoteOn ...")
notFollowedByNoteOn ==
    /\ AtEvent
    /\ Pending
    /\ extract.tickAttribute
    /\ extract.pendingPitchBend.time = CurrentEvent.time
    /\ CurrentEvent.type # "note_on"
    /\ Stopped("notFollowedByNoteOn", "bug")

\* bug("Pitch bend was followed by NoteOff")
followedByNoteOff ==
    /\ AtEvent
    /\ Pending
    /\ extract.tickAttribute
    /\ extract.pendingPitchBend.time = CurrentEvent.time
    /\ CurrentEvent.type = "note_on"
    /\ CurrentEvent.velocity = 0
    /\ Stopped("followedByNoteOff", "bug")

\* if eventClass == 'pitchwheel'
pitchwheel ==
    /\ AtEvent
    /\ ChecksPassed
    /\ CurrentEvent.type = "pitchwheel"
    /\ Continue("pitchwheel",
                IF CurrentEvent.pitch # 0
                THEN [extract EXCEPT !.pendingPitchBend = CurrentEvent]
                ELSE extract)

\* note_on with velocity 0
noteOff ==
    /\ AtEvent
    /\ ChecksPassed
    /\ CurrentEvent.type = "note_on"
    /\ CurrentEvent.velocity = 0
    /\ Continue("noteOff", extract)

\* pitchBends[event] = ... on a message that cannot be hashed
unhashableEvent ==
    /\ AtEvent
    /\ ChecksPassed
    /\ CurrentEvent.type = "note_on"
    /\ CurrentEvent.velocity # 0
    /\ Pending
    /\ ~extract.hashable
    /\ Stopped("unhashableEvent", "TypeError")

\* note_on with a velocity: the pending bend is attached, the event added
noteOn ==
    /\ AtEvent
    /\ ChecksPassed
    /\ CurrentEvent.type = "note_on"
    /\ CurrentEvent.velocity # 0
    /\ (Pending => extract.hashable)
    /\ Continue("noteOn",
                [extract EXCEPT
                    !.pitchBends = IF Pending
                                   THEN attachBend(@, CurrentEvent,
                                                   extract.pendingPitchBend)
                                   ELSE @,
                    !.pendingPitchBend = None,
                    !.notesInTicks = appendNote(@, CurrentEvent)])

\* any other event
skipEvent ==
    /\ AtEvent
    /\ ChecksPassed
    /\ CurrentEvent.type \notin {"pitchwheel", "note_on"}
    /\ Continue("skipEvent", extract)

\* getNotesInTicks returns; the rest of getMidiEvents
returnMidiEvents ==
    /\ extract.pc = "tracks"
    /\ extract.i >= Len(midiFile)
    /\ extract' = [extract EXCEPT
                      !.pc = "done",
                      !.midiTicks = SortedSeq(DOMAIN extract.notesInTicks)
                                    \o <<endOfTrack(midiFile)>>,
                      !.op = "returnMidiEvents"]
    /\ UNCHANGED midiFile

(***************************************************************************)
(* getLeftmostGrobsByMoment (cli.py): the anchors of LilyPond's output.    *)
(* A line of the output is what the function looks at: how it starts, and  *)
(* the parts of the anchor grammar that follow.  Extents are in tenths of  *)
(* a staff space, moments in the units of the anchors of getNoteIndices.   *)
(***************************************************************************)

MaxTraceLines == 3

GLOBAL_STAFF_SIZE == 20

Dpis == {110}

LeftMargins == {0}

NoPart == <<>>

\* "ly2video: (l, r) pitch o:n:a @ moment from file:line:col"
GrobLine(head, extents, pitch, moment, from) ==
    [start |-> head, comment |-> FALSE, extents |-> extents, pitch |-> pitch,
     moment |-> moment, from |-> from]

\* "ly2video: # ..."
CommentLine ==
    [start |-> "ly2video: ", comment |-> TRUE, extents |-> NoPart,
     pitch |-> NoPart, moment |-> NoPart, from |-> NoPart]

ExtentsChoices == {<<10, 20>>, <<0, 10>>}

PitchChoices == {<<0, 0, 0>>, <<0, 2, 0>>}

FromChoices == {<<"a.ly", 3, 4>>, <<"a.ly", 3, 8>>}

TraceMoments == {0, 1}

\* The lines the instrumentation writes for note heads
WellFormedLines ==
    {GrobLine("ly2video: ", e, p, <<m>>, f) :
        e \in ExtentsChoices, p \in PitchChoices, m \in TraceMoments,
        f \in FromChoices}

\* Lines with the prefix and one part of the grammar missing or unreadable
MalformedLines ==
    {GrobLine("ly2video: ", NoPart, <<0, 0, 0>>, <<0>>, <<"a.ly", 3, 4>>),
     GrobLine("ly2video: ", <<10, 20>>, NoPart, <<0>>, <<"a.ly", 3, 4>>),
     GrobLine("ly2video: ", <<10, 20>>, <<0, 0, 0>>, NoPart, <<"a.ly", 3, 4>>),
     GrobLine("ly2video: ", <<10, 20>>, <<0, 0, 0>>, <<0>>, NoPart)}

\* Lines that do not start with 'ly2video: ': LilyPond's own messages, and
\* a line with a tab after the colon
OtherLines ==
    {GrobLine("Processing", NoPart, NoPart, NoPart, NoPart),
     GrobLine("ly2video:\t", NoPart, <<0, 0, 0>>, <<0>>, <<"a.ly", 3, 4>>)}

OutputLines ==
    WellFormedLines \cup MalformedLines \cup OtherLines \cup {CommentLine}

\* line.startswith('ly2video: ')
startswith(line) == line.start = "ly2video: "

\* re.match(prefix + '#', line)
matchComment(line) == line.comment

\* m = re.match(prefix + ..., line): every group of the pattern is there
match(line) ==
    /\ ~line.comment
    /\ line.extents # NoPart
    /\ line.pitch # NoPart
    /\ line.moment # NoPart
    /\ line.from # NoPart

\* staffSpacesToPixels((left + right) / 2, dpi) as a fraction: staff
\* spaces x GLOBAL_STAFF_SIZE / 4 points, 72.27 points to the inch
staffSpacesToPixels(extents, dpi) ==
    [num |-> (extents[1] + extents[2]) * GLOBAL_STAFF_SIZE * 100 * dpi,
     den |-> 2 * 10 * 4 * 7227]

\* int(round(...)): the fractions that arise are never halfway
round(f) == (2 * f.num + f.den) \div (2 * f.den)

\* LySrcLocation(filename, line, column, octave, notename, alteration),
\* line = int(line) - 1
LySrcLocation(line) ==
    [filename |-> line.from[1], lineNum |-> line.from[2] - 1,
     columnNum |-> line.from[3], octave |-> line.pitch[1],
     notename |-> line.pitch[2], alteration |-> line.pitch[3]]

\* x = int(round(staffSpacesToPixels(centre, dpi))) + leftPaperMarginPx
grobX(line, dpi, leftPaperMarginPx) ==
    round(staffSpacesToPixels(line.extents, dpi)) + leftPaperMarginPx

\* The test with <=: a later line replaces an equal one
isLeftmostOrEqual(grobsByMoment, moment, x) ==
    \/ moment \notin DOMAIN grobsByMoment
    \/ x <= grobsByMoment[moment][1]

\* if moment not in leftmostGrobs or x < leftmostGrobs[moment][0]
isLeftmost(grobsByMoment, moment, x) ==
    \/ moment \notin DOMAIN grobsByMoment
    \/ x < grobsByMoment[moment][1]

\* leftmostGrobs[moment] = [x, location]
setLeftmost(grobsByMoment, moment, x, location) ==
    [m \in DOMAIN grobsByMoment \cup {moment} |->
        IF m = moment THEN <<x, location>> ELSE grobsByMoment[m]]

\* [tuple([moment] + leftmostGrobs[moment]) for moment in sorted(...)]
groblistOf(grobsByMoment) ==
    [k \in 1 .. Cardinality(DOMAIN grobsByMoment) |->
        LET moment == SortedSeq(DOMAIN grobsByMoment)[k]
        IN  <<moment, grobsByMoment[moment][1], grobsByMoment[moment][2]>>]

NoBug == [text |-> "", line |-> 0]

LeftmostLocals(pc, lines, dpi, margin) ==
    [pc |-> pc, lines |-> lines, dpi |-> dpi, leftPaperMarginPx |-> margin,
     k |-> 1, leftmostGrobs |-> <<>>, groblist |-> <<>>, bug |-> NoBug]

LeftmostIdle == LeftmostLocals("idle", <<>>, 0, 0)

Outputs(n) == UNION {[1 .. len -> OutputLines] : len \in 0 .. n}

\* The line the loop is on
AtLine ==
    /\ leftmost.pc = "lines"
    /\ leftmost.k <= Len(leftmost.lines)

CurrentLine == leftmost.lines[leftmost.k]

NextLine == [leftmost EXCEPT !.k = @ + 1]

\* if not line.startswith('ly2video: '): continue
skipLine ==
    /\ AtLine
    /\ ~startswith(CurrentLine)
    /\ leftmost' = NextLine

\* if re.match(prefix + '#', line): continue
skipComment ==
    /\ AtLine
    /\ startswith(CurrentLine)
    /\ matchComment(CurrentLine)
    /\ leftmost' = NextLine

\* An unparsable line passed over like a comment
ignoreLine ==
    /\ AtLine
    /\ startswith(CurrentLine)
    /\ ~matchComment(CurrentLine)
    /\ ~match(CurrentLine)
    /\ leftmost' = NextLine

\* if not m: bug("Failed to parse ly2video line:\n%s" % line)
failedToParse ==
    /\ AtLine
    /\ startswith(CurrentLine)
    /\ ~matchComment(CurrentLine)
    /\ ~match(CurrentLine)
    /\ leftmost' = [leftmost EXCEPT
                       !.pc = "bug",
                       !.bug = [text |-> "Failed to parse ly2video line",
                                line |-> leftmost.k]]

\* A line that matches: its grob becomes the leftmost of its moment, or not
grobLine ==
    /\ AtLine
    /\ startswith(CurrentLine)
    /\ ~matchComment(CurrentLine)
    /\ match(CurrentLine)
    /\ LET moment == CurrentLine.moment[1]
           x == grobX(CurrentLine, leftmost.dpi, leftmost.leftPaperMarginPx)
       IN  leftmost' =
             IF isLeftmost(leftmost.leftmostGrobs, moment, x)
             THEN [NextLine EXCEPT
                      !.leftmostGrobs = setLeftmost(@, moment, x,
                                                    LySrcLocation(CurrentLine))]
             ELSE NextLine

\* if not groblist: bug("Didn't find any notes; ...")
noNotes ==
    /\ leftmost.pc = "lines"
    /\ leftmost.k > Len(leftmost.lines)
    /\ groblistOf(leftmost.leftmostGrobs) = <<>>
    /\ leftmost' = [leftmost EXCEPT
                       !.pc = "bug",
                       !.bug = [text |-> "Didn't find any notes", line |-> 0]]

\* return groblist
returnGroblist ==
    /\ leftmost.pc = "lines"
    /\ leftmost.k > Len(leftmost.lines)
    /\ groblistOf(leftmost.leftmostGrobs) # <<>>
    /\ leftmost' = [leftmost EXCEPT
                       !.pc = "returned",
                       !.groblist = groblistOf(leftmost.leftmostGrobs)]

(***************************************************************************)
(* ly/tokenize.py: the Tokenizer and its stack of parsers.                 *)
(***************************************************************************)

MaxDepth == 3
MaxLevel == 1

\* Parser.argcount and the argcount class attribute of its subclasses
ClassArgcount(parserClass) ==
    IF parserClass \in {"ToplevelParser", "StringParser", "BlockCommentParser"}
    THEN 0
    ELSE 1

\* an argument left to its default None, and one that is given
NoToken == "None"
NoArgcount == <<>>
Argcount(n) == <<n>>

\* Parser.__init__(self, token = None, argcount = None)
Parser(parserClass, token, argcount) ==
    [cls      |-> parserClass,
     level    |-> 0,
     token    |-> token,
     argcount |-> IF argcount # NoArgcount THEN argcount[1]
                  ELSE ClassArgcount(parserClass)]

\* self.state.pop()
popState(t) == [t EXCEPT !.state = SubSeq(@, 1, Len(@) - 1)]

\* self.state[-1] of a tokenizer with no parser left
IndexError(t) == [t EXCEPT !.pc = "IndexError"]

\* Tokenizer.reset: one parser of the given class, the language "nederlands"
reset(t, parserClass) ==
    [t EXCEPT !.parserClass = parserClass,
              !.state = <<Parser(parserClass, NoToken, NoArgcount)>>,
              !.language = "nederlands"]

\* Tokenizer.parser(): the current parser
parser(t) == Last(t.state)

\* Tokenizer.enter
enter(t, parserClass, token, argcount) ==
    [t EXCEPT !.state = Append(@, Parser(parserClass, token, argcount))]

\* Tokenizer.leave without its test of the length
leaveAlways(t) == popState(t)

\* Tokenizer.leave
leave(t) == IF Len(t.state) > 1 THEN popState(t) ELSE t

\* A bug: only the current parser is looked at, the loop left after it
endArgumentOnce(t) ==
    IF Len(t.state) > 1 /\ parser(t).level = 0
    THEN IF parser(t).argcount > 1
         THEN [t EXCEPT !.state[Len(t.state)].argcount = @ - 1]
         ELSE IF parser(t).argcount = 0
              THEN t
              ELSE popState(t)
    ELSE t

\* Tokenizer.endArgument
RECURSIVE endArgument(_)
endArgument(t) ==
    IF Len(t.state) > 1 /\ parser(t).level = 0
    THEN IF parser(t).argcount > 1
         THEN [t EXCEPT !.state[Len(t.state)].argcount = @ - 1]
         ELSE IF parser(t).argcount = 0
              THEN t
              ELSE endArgument(popState(t))
    ELSE t

\* Tokenizer.inc
inc(t) ==
    IF t.state = <<>> THEN IndexError(t)
    ELSE [t EXCEPT !.state[Len(t.state)].level = @ + 1]

\* the while loop of Tokenizer.dec
RECURSIVE leaveFinished(_)
leaveFinished(t) ==
    IF parser(t).level = 0 /\ Len(t.state) > 1
    THEN leaveFinished(popState(t))
    ELSE t

\* Tokenizer.dec
dec(t) ==
    IF t.state = <<>> THEN IndexError(t)
    ELSE LET u == leaveFinished(t)
         IN  IF parser(u).level > 0
             THEN endArgument([u EXCEPT !.state[Len(u.state)].level = @ - 1])
             ELSE u

\* Tokenizer.depth
depth(t) == <<Len(t.state), parser(t).level>>

\* Tokenizer.freeze
freeze(t) == <<t.state, t.language>>

\* Tokenizer.thaw without the language
thawStateOnly(t, frozenState) ==
    [t EXCEPT !.state = [k \in 1..Len(frozenState[1]) |->
                            [Parser(frozenState[1][k].cls,
                                    frozenState[1][k].token,
                                    Argcount(frozenState[1][k].argcount))
                             EXCEPT !.level = frozenState[1][k].level]]]

\* Tokenizer.thaw
thaw(t, frozenState) ==
    [t EXCEPT !.language = frozenState[2],
              !.state = [k \in 1..Len(frozenState[1]) |->
                            [Parser(frozenState[1][k].cls,
                                    frozenState[1][k].token,
                                    Argcount(frozenState[1][k].argcount))
                             EXCEPT !.level = frozenState[1][k].level]]]

\* no construct with one braced argument is being read
NoConstruct == [phase |-> "none", state |-> <<>>]

\* a Tokenizer that has not been constructed
TokenizerIdle ==
    [pc |-> "idle", parserClass |-> "", state |-> <<>>, language |-> "",
     text |-> <<>>, first |-> 0, pos |-> 0, yielded |-> <<>>,
     frozen |-> <<>>, op |-> "none",
     before |-> [state |-> <<>>, language |-> ""],
     construct |-> NoConstruct]

\* Tokenizer.__init__(parserClass)
Tokenizer(parserClass) ==
    [reset(TokenizerIdle, parserClass) EXCEPT !.pc = "ready", !.op = "reset"]

\* How far the calls made so far are through a construct that enters a
\* parser with one argument to come (as the Markup, LyricMode, ChordMode
\* and Section tokens do), opens a brace (inc) and closes it (dec), with
\* the stack as it was before the construct; kept for the properties
constructAfter(t, op) ==
    CASE op = "enter" /\ Len(t.state) > 1 /\ parser(t).argcount = 1 ->
            [phase |-> "entered", state |-> tokenizer.state]
      [] op = "inc" /\ tokenizer.construct.phase = "entered" ->
            [tokenizer.construct EXCEPT !.phase = "open"]
      [] op = "dec" /\ tokenizer.construct.phase = "open" ->
            [tokenizer.construct EXCEPT !.phase = "closed"]
      [] OTHER -> NoConstruct

\* the state of the tokenizer before the call, kept for the properties
Called(t, op) ==
    [t EXCEPT !.op = op,
              !.before = [state |-> tokenizer.state,
                          language |-> tokenizer.language],
              !.construct = constructAfter(t, op)]

\* the parser classes and arguments of the calls of enter
StackParserClasses == {"ToplevelParser", "StringParser", "SchemeParser"}
StackArgcounts == {NoArgcount, Argcount(2)}
EnteringToken(parserClass) ==
    CASE parserClass = "ToplevelParser" -> "SchemeLily"
      [] parserClass = "StringParser" -> "StringQuoteStart"
      [] parserClass = "SchemeParser" -> "Scheme"

\* a call of enter
callEnter ==
    /\ tokenizer.pc = "ready"
    /\ Len(tokenizer.state) < MaxDepth
    /\ \E parserClass \in StackParserClasses, argcount \in StackArgcounts :
          tokenizer' = Called(enter(tokenizer, parserClass,
                                    EnteringToken(parserClass), argcount),
                              "enter")

\* a call of leave
callLeave ==
    /\ tokenizer.pc = "ready"
    /\ tokenizer' = Called(leave(tokenizer), "leave")

\* a call of endArgument
callEndArgument ==
    /\ tokenizer.pc = "ready"
    /\ tokenizer' = Called(endArgument(tokenizer), "endArgument")

\* a call of inc
callInc ==
    /\ tokenizer.pc = "ready"
    /\ tokenizer.state # <<>> => parser(tokenizer).level < MaxLevel
    /\ tokenizer' = Called(inc(tokenizer), "inc")

\* a call of dec
callDec ==
    /\ tokenizer.pc = "ready"
    /\ tokenizer' = Called(dec(tokenizer), "dec")

(***************************************************************************)
(* ly/tokenize.py: the text, the token patterns and Tokenizer.tokens.      *)
(* A text is a Python 2 byte string, modelled as the sequence of its       *)
(* bytes; a token is a unicode string, the sequence of its code points.    *)
(***************************************************************************)

MaxChunks == 3

\* the bytes of the texts: ASCII characters and the two bytes of the
\* UTF-8 encoding of U+00E9
Backslash == "\\"
Quote == "\""
NewLineChar == "\n"
Letters == {"a", "c", "d", "e", "g", "h", "i", "l", "n", "s", "u", "y"}
WhiteSpace == {" ", NewLineChar}
LeadByte == "0xC3"
ContinuationByte == "0xA9"
EAcute == "U+00E9"

\* the pieces the texts are made of
Chunks ==
    {<<Backslash, "l", "a", "n", "g", "u", "a", "g", "e">>,
     <<Backslash, "i", "n", "c", "l", "u", "d", "e">>,
     <<Quote, "e", "n", "g", "l", "i", "s", "h", Quote>>,
     <<Quote, "e", "n", "g", "l", "i", "s", "h", ".", "l", "y", Quote>>,
     <<Quote>>, <<"%", "{">>, <<"%", "}">>, <<"a">>, <<NewLineChar>>,
     <<LeadByte>>, <<ContinuationByte>>}

\* the names pitch.pitchInfo has an entry for, besides "nederlands"
LanguageNames == {<<"e", "n", "g", "l", "i", "s", "h">>}
languageOf(name) == IF name = <<"e", "n", "g", "l", "i", "s", "h">>
                    THEN "english" ELSE "nederlands"

RECURSIVE Texts(_)
Texts(n) ==
    IF n = 0 THEN {<<>>}
    ELSE Texts(n - 1) \cup
         {c \o t : c \in Chunks, t \in Texts(n - 1)}

\* text[at] and text[at:j] with Python's indices
charAt(text, at) == IF at >= 0 /\ at < Len(text) THEN text[at + 1] ELSE ""
slice(text, at, j) == SubSeq(text, at + 1, j)

\* unicode(bytes, "utf-8"): the code points, or the failure of the decoding
DecodeError == <<"UnicodeDecodeError">>
RECURSIVE decode(_)
decode(bytes) ==
    IF bytes = <<>> THEN <<>>
    ELSE IF Head(bytes) = ContinuationByte THEN DecodeError
    ELSE IF Head(bytes) = LeadByte
         THEN IF Len(bytes) >= 2 /\ bytes[2] = ContinuationByte
              THEN LET rest == decode(SubSeq(bytes, 3, Len(bytes)))
                   IN  IF rest = DecodeError THEN DecodeError
                       ELSE <<EAcute>> \o rest
              ELSE DecodeError
    ELSE LET rest == decode(Tail(bytes))
         IN  IF rest = DecodeError THEN DecodeError
             ELSE <<Head(bytes)>> \o rest

\* the end of a match of a pattern at index `at' of the text, or NoMatch
NoMatch == -1

\* the literal word at `at'
RECURSIVE literal(_, _, _)
literal(text, at, word) ==
    IF word = <<>> THEN at
    ELSE IF charAt(text, at) = Head(word)
         THEN literal(text, at + 1, Tail(word))
         ELSE NoMatch

\* [S]* at `at': the longest run of characters of S
RECURSIVE run(_, _, _)
run(text, at, S) ==
    IF charAt(text, at) \in S THEN run(text, at + 1, S) ELSE at

\* [^S]* at `at': the longest run of characters outside S
RECURSIVE runNot(_, _, _)
runNot(text, at, S) ==
    IF at < Len(text) /\ charAt(text, at) \notin S
    THEN runNot(text, at + 1, S) ELSE at

\* \b at `at': a word character on one side only
wordBoundary(text, at) ==
    (charAt(text, at - 1) \in Letters) # (charAt(text, at) \in Letters)

\* (\\[\\"]|[^X])*" at `at', with the alternatives tried in their order
RECURSIVE quoted(_, _, _)
quoted(text, at, X) ==
    LET escaped == IF charAt(text, at) = Backslash
                      /\ charAt(text, at + 1) \in {Backslash, Quote}
                   THEN quoted(text, at + 2, X) ELSE NoMatch
        other   == IF at < Len(text) /\ charAt(text, at) \notin X
                   THEN quoted(text, at + 1, X) ELSE NoMatch
    IN  IF escaped # NoMatch THEN escaped
        ELSE IF other # NoMatch THEN other
        ELSE IF charAt(text, at) = Quote THEN at + 1
        ELSE NoMatch

\* (\\[\\"]|[^"\n])* at `at'
RECURSIVE fragment(_, _)
fragment(text, at) ==
    IF charAt(text, at) = Backslash
       /\ charAt(text, at + 1) \in {Backslash, Quote}
    THEN fragment(text, at + 2)
    ELSE IF at < Len(text) /\ charAt(text, at) \notin {Quote, NewLineChar}
         THEN fragment(text, at + 1)
         ELSE at

\* (%(?!\})|[^%\n])* at `at'
RECURSIVE commentFragment(_, _)
commentFragment(text, at) ==
    IF charAt(text, at) = "%" /\ charAt(text, at + 1) # "}"
    THEN commentFragment(text, at + 1)
    ELSE IF at < Len(text) /\ charAt(text, at) \notin {"%", NewLineChar}
         THEN commentFragment(text, at + 1)
         ELSE at

\* a pattern that has to match one character at least
nonEmpty(at, j) == IF j > at THEN j ELSE NoMatch

\* a pattern followed by \b
atWordBoundary(text, j) ==
    IF j # NoMatch /\ wordBoundary(text, j) THEN j ELSE NoMatch

\* "(name)" followed by the literal rest, for a name of pitch.pitchInfo
named(text, at, rest) ==
    IF \E name \in LanguageNames :
          literal(text, at, <<Quote>> \o name \o rest) # NoMatch
    THEN LET name == CHOOSE name \in LanguageNames :
                        literal(text, at, <<Quote>> \o name \o rest) # NoMatch
         IN  literal(text, at, <<Quote>> \o name \o rest)
    ELSE NoMatch

\* the rx attribute of the token classes: the end of the match of the
\* pattern at `at'.  The patterns of the classes left out need a character
\* that the texts do not have (#, <, >, !, -, _, ^ or a word made of other
\* letters)
rx(tokenClass, text, at) ==
    CASE tokenClass = "NewLine" -> literal(text, at, <<NewLineChar>>)
      [] tokenClass = "Space" -> nonEmpty(at, run(text, at, WhiteSpace))
      [] tokenClass = "StringQuoted" ->
            IF charAt(text, at) = Quote
            THEN quoted(text, at + 1, {Quote, NewLineChar}) ELSE NoMatch
      [] tokenClass = "StringQuoteStart" -> literal(text, at, <<Quote>>)
      [] tokenClass = "StringQuoteEnd" -> literal(text, at, <<Quote>>)
      [] tokenClass = "StringFragment" -> nonEmpty(at, fragment(text, at))
      [] tokenClass = "LineComment" ->
            IF charAt(text, at) = "%"
            THEN runNot(text, at + 1, {NewLineChar}) ELSE NoMatch
      [] tokenClass = "BlockCommentStart" -> literal(text, at, <<"%", "{">>)
      [] tokenClass = "BlockCommentEnd" -> literal(text, at, <<"%", "}">>)
      [] tokenClass = "BlockCommentFragment" ->
            nonEmpty(at, commentFragment(text, at))
      [] tokenClass = "Command" ->
            IF charAt(text, at) = Backslash
            THEN nonEmpty(at + 1, run(text, at + 1, Letters)) ELSE NoMatch
      [] tokenClass = "Language" ->
            atWordBoundary(text, literal(text, at,
                <<Backslash, "l", "a", "n", "g", "u", "a", "g", "e">>))
      [] tokenClass = "LanguageName" -> named(text, at, <<Quote>>)
      [] tokenClass = "Include" ->
            atWordBoundary(text, literal(text, at,
                <<Backslash, "i", "n", "c", "l", "u", "d", "e">>))
      [] tokenClass = "IncludeFile" ->
            IF charAt(text, at) = Quote
            THEN quoted(text, at + 1, {Quote}) ELSE NoMatch
      [] tokenClass = "IncludeLanguageFile" ->
            named(text, at, <<".", "l", "y", Quote>>)
      [] tokenClass = "OpenDelimiter" -> literal(text, at, <<"{">>)
      [] tokenClass = "CloseDelimiter" -> literal(text, at, <<"}">>)
      [] tokenClass = "VoiceSeparator" ->
            literal(text, at, <<Backslash, Backslash>>)
      [] tokenClass = "PitchWord" -> nonEmpty(at, run(text, at, Letters))
      [] OTHER -> NoMatch

\* Tokenizer.lilybaseItems
lilybaseItems ==
    <<"BlockCommentStart", "LineComment", "StringQuoted", "StringQuoteStart",
      "EndSchemeLily", "Scheme", "Section", "LyricMode", "ChordMode",
      "FigureMode", "NoteMode", "Markup", "MarkupLines", "Include",
      "Language", "Command", "Space">>

\* the items of the parser classes, in the order of their patterns
items(parserClass) ==
    CASE parserClass = "StringParser" ->
            <<"StringQuoteEnd", "StringFragment", "NewLine">>
      [] parserClass = "BlockCommentParser" ->
            <<"BlockCommentEnd", "BlockCommentFragment", "NewLine">>
      [] parserClass = "ToplevelParser" ->
            <<"OpenDelimiter", "CloseDelimiter", "PitchWord", "Dynamic",
              "VoiceSeparator", "Articulation">> \o lilybaseItems
      [] parserClass = "IncludeParser" ->
            <<"IncludeLanguageFile", "IncludeFile">> \o lilybaseItems
      [] parserClass = "LanguageParser" ->
            <<"LanguageName">> \o lilybaseItems

\* the match object of a search that found nothing
NoMatchObject == [start |-> NoMatch, end |-> NoMatch, lastgroup |-> "None"]

\* the first item of the parser class that matches at `at'
matchAt(parserClass, text, at) ==
    LET its == items(parserClass)
        hit == {k \in 1..Len(its) : rx(its[k], text, at) # NoMatch}
    IN  IF hit = {} THEN NoMatchObject
        ELSE LET k == CHOOSE k \in hit : \A h \in hit : k <= h
             IN  [start |-> at, end |-> rx(its[k], text, at),
                  lastgroup |-> its[k]]

\* Parser.parse: pattern.search(text, pos), the match at the first index
\* at or after pos where an item matches
RECURSIVE parse(_, _, _)
parse(parserClass, text, pos) ==
    IF pos >= Len(text) THEN NoMatchObject
    ELSE IF matchAt(parserClass, text, pos) # NoMatchObject
         THEN matchAt(parserClass, text, pos)
         ELSE parse(parserClass, text, pos + 1)

\* Token.__new__: the decoded match with its span
Token(tokenClass, text, matchObj) ==
    [cls |-> tokenClass, value |-> decode(slice(text, matchObj.start, matchObj.end)),
     pos |-> matchObj.start, end |-> matchObj.end]

\* Unparsed.__new__: the decoded value, its position and its length
Unparsed(value, pos) ==
    [cls |-> "Unparsed", value |-> decode(value), pos |-> pos,
     end |-> pos + Len(decode(value))]

\* self[1:-n] of a token
strip(token, n) == SubSeq(token.value, 2, Len(token.value) - n)

\* the __init__ of the token classes: what producing the token does to
\* the tokenizer
init(t, token) ==
    CASE token.cls \in {"StringQuoted", "IncludeFile", "Command", "PitchWord"} ->
            endArgument(t)
      [] token.cls = "StringQuoteStart" ->
            enter(t, "StringParser", token.cls, NoArgcount)
      [] token.cls = "StringQuoteEnd" -> endArgument(leave(t))
      [] token.cls = "BlockCommentStart" ->
            enter(t, "BlockCommentParser", token.cls, NoArgcount)
      [] token.cls = "BlockCommentEnd" -> leave(t)
      [] token.cls = "Language" ->
            enter(t, "LanguageParser", token.cls, NoArgcount)
      [] token.cls = "LanguageName" ->
            endArgument([t EXCEPT !.language = languageOf(strip(token, 1))])
      [] token.cls = "Include" ->
            enter(t, "IncludeParser", token.cls, NoArgcount)
      [] token.cls = "IncludeLanguageFile" ->
            endArgument([t EXCEPT !.language = languageOf(strip(token, 4))])
      [] token.cls = "OpenDelimiter" -> inc(t)
      [] token.cls = "CloseDelimiter" -> dec(t)
      [] OTHER -> t

\* the match the loop of tokens is at
found == parse(parser(tokenizer).cls, tokenizer.text, tokenizer.pos)

\* a token is yielded, unless its text cannot be decoded
yield(t, token) ==
    IF token.value = DecodeError
    THEN [t EXCEPT !.pc = "UnicodeDecodeError"]
    ELSE [t EXCEPT !.yielded = Append(@, token)]

\* tokens(text, pos) is called on a new Tokenizer
tokens(text, pos) ==
    [Tokenizer("ToplevelParser") EXCEPT
        !.pc = "tokens", !.text = text, !.first = pos, !.pos = pos,
        !.op = "tokens"]

\* if pos < found.start(): yield self.Unparsed(text[pos:found.start()], pos)
yieldUnparsed ==
    /\ tokenizer.pc = "tokens"
    /\ found # NoMatchObject
    /\ tokenizer.pos < found.start
    /\ tokenizer' =
          Called([yield(tokenizer,
                        Unparsed(slice(tokenizer.text, tokenizer.pos, found.start),
                                 tokenizer.pos))
                  EXCEPT !.pos = found.start], "Unparsed")

\* yield tokenClass(found, self); pos = found.end()
yieldToken ==
    /\ tokenizer.pc = "tokens"
    /\ found # NoMatchObject
    /\ tokenizer.pos = found.start
    /\ LET token == Token(found.lastgroup, tokenizer.text, found)
       IN  tokenizer' =
              Called(IF token.value = DecodeError THEN yield(tokenizer, token)
                     ELSE [yield(init(tokenizer, token), token)
                           EXCEPT !.pos = found.end],
                     found.lastgroup)

\* if pos < len(text): yield self.Unparsed(text[pos:], pos)
yieldRest ==
    /\ tokenizer.pc = "tokens"
    /\ found = NoMatchObject
    /\ tokenizer.pos < Len(tokenizer.text)
    /\ tokenizer' =
          Called([yield(tokenizer,
                        Unparsed(slice(tokenizer.text, tokenizer.pos,
                                       Len(tokenizer.text)),
                                 tokenizer.pos))
                  EXCEPT !.pos = Len(tokenizer.text)], "Unparsed")

\* the generator returns
stopIteration ==
    /\ tokenizer.pc = "tokens"
    /\ found = NoMatchObject
    /\ tokenizer.pos >= Len(tokenizer.text)
    /\ tokenizer' = Called([tokenizer EXCEPT !.pc = "done"], "StopIteration")

\* the caller keeps the state of the tokenizer
callFreeze ==
    /\ tokenizer.pc = "tokens"
    /\ tokenizer.frozen = <<>>
    /\ tokenizer' = Called([tokenizer EXCEPT !.frozen = freeze(tokenizer)],
                           "freeze")

\* the caller restores the state it kept
callThaw ==
    /\ tokenizer.pc = "done"
    /\ tokenizer.frozen # <<>>
    /\ tokenizer' = Called([thaw(tokenizer, tokenizer.frozen)
                            EXCEPT !.pc = "thawed"], "thaw")

(***************************************************************************)
(* utils.py: what a run prints, and how it ends.                           *)
(***************************************************************************)

MaxOutput == 3

\* the texts of the messages, the statuses the callers of fatal give and
\* the issue numbers the callers of bug give
Messages == {"a", "b"}
FatalDefaultStatus == 1
FatalStatuses == {2, 3, 4, 5}
Issues == {<<>>, <<11>>}

\* a process that has not been started
ProcessIdle ==
    [pc |-> "idle", DEBUG |-> FALSE, stdout |-> <<>>, stderrLines |-> <<>>,
     status |-> 0, op |-> "none", exits |-> {}]

\* a run of ly2video started by a caller that has seen the given exits
Process(exits) == [ProcessIdle EXCEPT !.pc = "running", !.exits = exits]

\* setDebug
setDebug(proc) == [proc EXCEPT !.DEBUG = TRUE]

\* progress(text)
progress(proc, text) == [proc EXCEPT !.stdout = Append(@, text)]

\* debug(text)
debug(proc, text) == IF proc.DEBUG THEN progress(proc, text) ELSE proc

\* stderr(text)
stderr(proc, text) == [proc EXCEPT !.stderrLines = Append(@, text)]

\* warn(text)
warn(proc, text) == stderr(proc, <<"WARNING: ", text>>)

\* output_divider_line
output_divider_line(proc) == progress(proc, "------")

\* sys.exit(status)
exit(proc, status) == [proc EXCEPT !.pc = "exited", !.status = status]

\* fatal(text, status=1)
fatal(proc, text, status) ==
    exit(stderr(output_divider_line(proc), <<"ERROR: ", text>>), status)

\* the message bug adds to its text
msg(issues) ==
    IF Len(issues) = 0 THEN "could not attribute to any known cause"
    ELSE "might be due to the following known issue(s)"

\* bug(text, *issues)
bug(proc, text, issues) ==
    fatal(proc, <<text, msg(issues)>>, FatalDefaultStatus)

\* the number of lines printed so far
Printed == Len(process.stdout) + Len(process.stderrLines)

\* what the caller of the process remembers of a call
Did(proc, op) ==
    [proc EXCEPT !.op = op,
                 !.exits = IF proc.pc = "exited"
                           THEN @ \cup {[tier |-> op, status |-> proc.status]}
                           ELSE @]

\* a call of setDebug
callSetDebug ==
    /\ process.pc = "running"
    /\ ~process.DEBUG
    /\ process' = Did(setDebug(process), "setDebug")

\* a call of debug
callDebug ==
    /\ process.pc = "running"
    /\ Printed < MaxOutput
    /\ \E text \in Messages : process' = Did(debug(process, text), "debug")

\* a call of progress
callProgress ==
    /\ process.pc = "running"
    /\ Printed < MaxOutput
    /\ \E text \in Messages :
          process' = Did(progress(process, text), "progress")

\* a call of warn
callWarn ==
    /\ process.pc = "running"
    /\ Printed < MaxOutput
    /\ \E text \in Messages : process' = Did(warn(process, text), "warn")

\* a call of fatal
callFatal ==
    /\ process.pc = "running"
    /\ \E text \in Messages, status \in {FatalDefaultStatus} \cup FatalStatuses :
          process' = Did(fatal(process, text, status), "fatal")

\* a call of bug
callBug ==
    /\ process.pc = "running"
    /\ \E text \in Messages, issues \in Issues :
          process' = Did(bug(process, text, issues), "bug")

\* the caller starts ly2video again
runAgain ==
    /\ process.pc = "exited"
    /\ process' = Process(process.exits)

(***************************************************************************)
(* The objects a specification below has not constructed.                  *)
(***************************************************************************)
LyIdle ==
    /\ leftmost = LeftmostIdle
    /\ tokenizer = TokenizerIdle
    /\ process = ProcessIdle

(***************************************************************************)
(* Specifications.                                                         *)
(***************************************************************************)

\* A TimeCode driven by its callers
InitTimeCode ==
    /\ \E inp \in TimeCodeInputs : TimeCodeInit(inp)
    /\ MediaIdle
    /\ writer = WriterIdle
    /\ probe = ProbeIdle
    /\ query = QueryIdle
    /\ AlignIdle
    /\ MidiIdle
    /\ LyIdle

NextTimeCode ==
    \/ nbFramesToNextNote /\ UNCHANGED <<writer, probe, query, alVars, mdVars, lyVars>>
    \/ goToNextNote /\ UNCHANGED <<writer, probe, query, alVars, mdVars, lyVars>>

SpecTimeCode == InitTimeCode /\ [][NextTimeCode]_vars

\* A TimeCode whose three methods are called in any order
NextCalls ==
    \/ nbFramesToNextNote /\ UNCHANGED <<writer, probe, query, alVars, mdVars, lyVars>>
    \/ goToNextNote /\ UNCHANGED <<writer, probe, query, alVars, mdVars, lyVars>>
    \/ callSecsElapsed /\ UNCHANGED <<writer, probe, query, alVars, mdVars, lyVars>>

SpecCalls == InitTimeCode /\ [][NextCalls]_vars

\* Elapsed time of an interval, asked at once and asked in two parts
InitProbe ==
    /\ TimeCodeIdle
    /\ MediaIdle
    /\ writer = WriterIdle
    /\ \E inp \in ProbeInputs : inp.a < inp.m /\ inp.m < inp.b /\ ProbeInit(inp)
    /\ query = QueryIdle
    /\ AlignIdle
    /\ MidiIdle
    /\ LyIdle

NextProbe == callWhole \/ callLeft \/ callRight

SpecProbe == InitProbe /\ [][NextProbe]_vars

\* One run of getNoteIndices
InitAlign ==
    /\ TimeCodeIdle
    /\ MediaIdle
    /\ writer = WriterIdle
    /\ probe = ProbeIdle
    /\ query = QueryIdle
    /\ \/ \E g \in GrobLists, md \in MidiInputs, r \in AlignResolutions :
             AlignInit(AlignInput(g, md, r))
       \/ \E inp \in LongAlignInputs \cup ChordAlignInputs : AlignInit(inp)
    /\ MidiIdle
    /\ LyIdle

\* One TimeCode asked about intervals in any order
InitQuery ==
    /\ TimeCodeIdle
    /\ MediaIdle
    /\ writer = WriterIdle
    /\ probe = ProbeIdle
    /\ \E inp \in QueryInputs : QueryInit(inp)
    /\ AlignIdle
    /\ MidiIdle
    /\ LyIdle

NextQuery == ask

SpecQuery == InitQuery /\ [][NextQuery]_vars

InitMidi ==
    /\ LyIdle
    /\ TimeCodeIdle
    /\ MediaIdle
    /\ writer = WriterIdle
    /\ probe = ProbeIdle
    /\ query = QueryIdle
    /\ AlignIdle
    /\ \E c \in ConductorTracks, rest \in OtherTracks(MaxTrackEvents) :
          MidiInit(<<c>> \o rest)

NextMidi ==
    \/ openMidi /\ UNCHANGED <<tcVars, mediaVars, writer, probe, query, alVars, lyVars>>
    \/ enterTrack /\ UNCHANGED <<tcVars, mediaVars, writer, probe, query, alVars, lyVars>>
    \/ leaveTrack /\ UNCHANGED <<tcVars, mediaVars, writer, probe, query, alVars, lyVars>>
    \/ tickAttributeError /\ UNCHANGED <<tcVars, mediaVars, writer, probe, query, alVars, lyVars>>
    \/ orphanedPitchBend /\ UNCHANGED <<tcVars, mediaVars, writer, probe, query, alVars, lyVars>>
    \/ notFollowedByNoteOn /\ UNCHANGED <<tcVars, mediaVars, writer, probe, query, alVars, lyVars>>
    \/ followedByNoteOff /\ UNCHANGED <<tcVars, mediaVars, writer, probe, query, alVars, lyVars>>
    \/ pitchwheel /\ UNCHANGED <<tcVars, mediaVars, writer, probe, query, alVars, lyVars>>
    \/ noteOff /\ UNCHANGED <<tcVars, mediaVars, writer, probe, query, alVars, lyVars>>
    \/ unhashableEvent /\ UNCHANGED <<tcVars, mediaVars, writer, probe, query, alVars, lyVars>>
    \/ noteOn /\ UNCHANGED <<tcVars, mediaVars, writer, probe, query, alVars, lyVars>>
    \/ skipEvent /\ UNCHANGED <<tcVars, mediaVars, writer, probe, query, alVars, lyVars>>
    \/ returnMidiEvents /\ UNCHANGED <<tcVars, mediaVars, writer, probe, query, alVars, lyVars>>

SpecMidi == InitMidi /\ [][NextMidi]_vars

\* One run of getLeftmostGrobsByMoment
InitLeftmost ==
    /\ TimeCodeIdle
    /\ MediaIdle
    /\ writer = WriterIdle
    /\ probe = ProbeIdle
    /\ query = QueryIdle
    /\ AlignIdle
    /\ MidiIdle
    /\ tokenizer = TokenizerIdle
    /\ process = ProcessIdle
    /\ \E lines \in Outputs(MaxTraceLines), dpi \in Dpis, margin \in LeftMargins :
          leftmost = LeftmostLocals("lines", lines, dpi, margin)

NextLeftmost ==
    \/ skipLine /\ UNCHANGED <<tcVars, mediaVars, writer, probe, query, alVars, mdVars, tokenizer, process>>
    \/ skipComment /\ UNCHANGED <<tcVars, mediaVars, writer, probe, query, alVars, mdVars, tokenizer, process>>
    \/ failedToParse /\ UNCHANGED <<tcVars, mediaVars, writer, probe, query, alVars, mdVars, tokenizer, process>>
    \/ grobLine /\ UNCHANGED <<tcVars, mediaVars, writer, probe, query, alVars, mdVars, tokenizer, process>>
    \/ noNotes /\ UNCHANGED <<tcVars, mediaVars, writer, probe, query, alVars, mdVars, tokenizer, process>>
    \/ returnGroblist /\ UNCHANGED <<tcVars, mediaVars, writer, probe, query, alVars, mdVars, tokenizer, process>>

SpecLeftmost == InitLeftmost /\ [][NextLeftmost]_vars

\* A Tokenizer whose stack operations are called in any order
InitStack ==
    /\ TimeCodeIdle
    /\ MediaIdle
    /\ writer = WriterIdle
    /\ probe = ProbeIdle
    /\ query = QueryIdle
    /\ AlignIdle
    /\ MidiIdle
    /\ leftmost = LeftmostIdle
    /\ process = ProcessIdle
    /\ \E parserClass \in StackParserClasses :
          tokenizer = Tokenizer(parserClass)

NextStack ==
    \/ callEnter /\ UNCHANGED <<tcVars, mediaVars, writer, probe, query, alVars, mdVars, leftmost, process>>
    \/ callLeave /\ UNCHANGED <<tcVars, mediaVars, writer, probe, query, alVars, mdVars, leftmost, process>>
    \/ callEndArgument /\ UNCHANGED <<tcVars, mediaVars, writer, probe, query, alVars, mdVars, leftmost, process>>
    \/ callInc /\ UNCHANGED <<tcVars, mediaVars, writer, probe, query, alVars, mdVars, leftmost, process>>
    \/ callDec /\ UNCHANGED <<tcVars, mediaVars, writer, probe, query, alVars, mdVars, leftmost, process>>

SpecStack == InitStack /\ [][NextStack]_vars

\* One run of Tokenizer.tokens over a text
InitTokens ==
    /\ TimeCodeIdle
    /\ MediaIdle
    /\ writer = WriterIdle
    /\ probe = ProbeIdle
    /\ query = QueryIdle
    /\ AlignIdle
    /\ MidiIdle
    /\ leftmost = LeftmostIdle
    /\ process = ProcessIdle
    /\ \E text \in Texts(MaxChunks), pos \in {0, 1} :
          /\ pos <= Len(text)
          /\ tokenizer = tokens(text, pos)

NextTokens ==
    \/ yieldUnparsed /\ UNCHANGED <<tcVars, mediaVars, writer, probe, query, alVars, mdVars, leftmost, process>>
    \/ yieldToken /\ UNCHANGED <<tcVars, mediaVars, writer, probe, query, alVars, mdVars, leftmost, process>>
    \/ yieldRest /\ UNCHANGED <<tcVars, mediaVars, writer, probe, query, alVars, mdVars, leftmost, process>>
    \/ stopIteration /\ UNCHANGED <<tcVars, mediaVars, writer, probe, query, alVars, mdVars, leftmost, process>>
    \/ callFreeze /\ UNCHANGED <<tcVars, mediaVars, writer, probe, query, alVars, mdVars, leftmost, process>>
    \/ callThaw /\ UNCHANGED <<tcVars, mediaVars, writer, probe, query, alVars, mdVars, leftmost, process>>

SpecTokens == InitTokens /\ [][NextTokens]_vars

\* Runs of ly2video, started one after the other by a caller that keeps
\* their exit statuses
InitProcess ==
    /\ TimeCodeIdle
    /\ MediaIdle
    /\ writer = WriterIdle
    /\ probe = ProbeIdle
    /\ query = QueryIdle
    /\ AlignIdle
    /\ MidiIdle
    /\ leftmost = LeftmostIdle
    /\ tokenizer = TokenizerIdle
    /\ process = Process({})

NextProcess ==
    \/ callSetDebug /\ UNCHANGED <<tcVars, mediaVars, writer, probe, query, alVars, mdVars, leftmost, tokenizer>>
    \/ callDebug /\ UNCHANGED <<tcVars, mediaVars, writer, probe, query, alVars, mdVars, leftmost, tokenizer>>
    \/ callProgress /\ UNCHANGED <<tcVars, mediaVars, writer, probe, query, alVars, mdVars, leftmost, tokenizer>>
    \/ callWarn /\ UNCHANGED <<tcVars, mediaVars, writer, probe, query, alVars, mdVars, leftmost, tokenizer>>
    \/ callFatal /\ UNCHANGED <<tcVars, mediaVars, writer, probe, query, alVars, mdVars, leftmost, tokenizer>>
    \/ callBug /\ UNCHANGED <<tcVars, mediaVars, writer, probe, query, alVars, mdVars, leftmost, tokenizer>>
    \/ runAgain /\ UNCHANGED <<tcVars, mediaVars, writer, probe, query, alVars, mdVars, leftmost, tokenizer>>

SpecProcess == InitProcess /\ [][NextProcess]_vars

\* VideoFrameWriter.frames run to its end
InitWriter ==
    /\ \E inp \in WriterInputs :
          Len(inp.notesX) \in {Len(inp.timecode.ticks) - 1, Len(inp.timecode.ticks)}
          /\ WriterInit(inp)
    /\ probe = ProbeIdle
    /\ query = QueryIdle
    /\ AlignIdle
    /\ MidiIdle
    /\ LyIdle

NextFrames ==
    \/ register /\ UNCHANGED <<probe, query, alVars, mdVars, lyVars>>
    \/ start /\ UNCHANGED <<probe, query, alVars, mdVars, lyVars>>
    \/ renderFrameSet /\ UNCHANGED <<probe, query, alVars, mdVars, lyVars>>
    \/ advance /\ UNCHANGED <<probe, query, alVars, mdVars, lyVars>>
    \/ framesDone /\ UNCHANGED <<probe, query, alVars, mdVars, lyVars>>

SpecFrames == InitWriter /\ [][NextFrames]_vars

\* The loop of testCompleteFollowing, which the test runner keeps running
NextFollow ==
    \/ register /\ UNCHANGED <<probe, query, alVars, mdVars, lyVars>>
    \/ start /\ UNCHANGED <<probe, query, alVars, mdVars, lyVars>>
    \/ follow /\ UNCHANGED <<probe, query, alVars, mdVars, lyVars>>
    \/ framesDone /\ UNCHANGED <<probe, query, alVars, mdVars, lyVars>>

SpecFollow == InitWriter /\ [][NextFollow]_vars /\ WF_vars(NextFollow)

NextAlign ==
    \/ leaveLoop /\ UNCHANGED <<tcVars, mediaVars, writer, probe, query, mdVars, lyVars>>
    \/ ranOutOfTicks /\ UNCHANGED <<tcVars, mediaVars, writer, probe, query, mdVars, lyVars>>
    \/ finalTick /\ UNCHANGED <<tcVars, mediaVars, writer, probe, query, mdVars, lyVars>>
    \/ skipTick /\ UNCHANGED <<tcVars, mediaVars, writer, probe, query, mdVars, lyVars>>
    \/ skipGrob /\ UNCHANGED <<tcVars, mediaVars, writer, probe, query, mdVars, lyVars>>
    \/ skipGrobAndTick /\ UNCHANGED <<tcVars, mediaVars, writer, probe, query, mdVars, lyVars>>
    \/ syncPoint /\ UNCHANGED <<tcVars, mediaVars, writer, probe, query, mdVars, lyVars>>
    \/ finish /\ UNCHANGED <<tcVars, mediaVars, writer, probe, query, mdVars, lyVars>>

SpecAlign == InitAlign /\ [][NextAlign]_vars

\* A ScoreImage asked for one cropped frame after the other
InitCrop ==
    /\ TimeCodeIdle
    /\ scoreImage = NoScoreImage
    /\ slideShow = SlideShowInit
    /\ notified = <<>>
    /\ writer = WriterIdle
    /\ probe = ProbeIdle
    /\ query = QueryIdle
    /\ AlignIdle
    /\ MidiIdle
    /\ LyIdle
    /\ \E width \in FrameWidths, height \in FrameHeights,
          picture \in PictureWidths \X PictureHeights, staffX \in StaffXs,
          top \in Croppables, bottom \in Croppables,
          leftMargin \in CursorLeftMargins, rightMargin \in CursorRightMargins :
          crop = ScoreImage(width, height, picture, staffX, top, bottom,
                            leftMargin, rightMargin)

NextCrop ==
    callCropFrame /\ UNCHANGED <<tcVars, scoreImage, slideShow, notified, writer, probe, query, alVars, mdVars, lyVars>>

SpecCrop == InitCrop /\ [][NextCrop]_vars

\* getNoteIndices run to its end on inputs without pitch bends (which the
\* loop never applies) and with chords only on the scores with repeated
\* chords: a running Python program takes its next step
InitTerminate ==
    /\ TimeCodeIdle
    /\ MediaIdle
    /\ writer = WriterIdle
    /\ probe = ProbeIdle
    /\ query = QueryIdle
    /\ \/ \E g \in GrobLists, md \in MidiInputs, r \in AlignResolutions :
             /\ md.bends = <<>>
             /\ \A t \in DOMAIN md.notes : Cardinality(md.notes[t]) = 1
             /\ AlignInit(AlignInput(g, md, r))
       \/ \E inp \in LongAlignInputs \cup ChordAlignInputs : AlignInit(inp)
    /\ MidiIdle
    /\ LyIdle

SpecTerminate == InitTerminate /\ [][NextAlign]_vars /\ WF_vars(NextAlign)

\* getNoteIndices run, and run once more on what it left behind
NextRealign ==
    \/ NextAlign
    \/ callAgain /\ UNCHANGED <<tcVars, mediaVars, writer, probe, query, mdVars, lyVars>>

SpecRealign == InitAlign /\ [][NextRealign]_vars

\* main from getNoteIndices to the end of VideoFrameWriter.frames
InitPipeline ==
    /\ TimeCodeIdle
    /\ MediaIdle
    /\ writer = WriterIdle
    /\ probe = ProbeIdle
    /\ query = QueryIdle
    /\ \/ \E g \in GrobLists, md \in MidiInputs, r \in AlignResolutions :
             AlignInit(AlignInput(g, md, r))
       \/ \E inp \in LongAlignInputs \cup TrailingAlignInputs : AlignInit(inp)
    /\ MidiIdle
    /\ LyIdle

NextPipeline ==
    \/ leaveLoop /\ UNCHANGED <<tcVars, mediaVars, writer, probe, query, mdVars, lyVars>>
    \/ ranOutOfTicks /\ UNCHANGED <<tcVars, mediaVars, writer, probe, query, mdVars, lyVars>>
    \/ finalTick /\ UNCHANGED <<tcVars, mediaVars, writer, probe, query, mdVars, lyVars>>
    \/ skipTick /\ UNCHANGED <<tcVars, mediaVars, writer, probe, query, mdVars, lyVars>>
    \/ skipGrob /\ UNCHANGED <<tcVars, mediaVars, writer, probe, query, mdVars, lyVars>>
    \/ skipGrobAndTick /\ UNCHANGED <<tcVars, mediaVars, writer, probe, query, mdVars, lyVars>>
    \/ syncPoint /\ UNCHANGED <<tcVars, mediaVars, writer, probe, query, mdVars, lyVars>>
    \/ finish /\ UNCHANGED <<tcVars, mediaVars, writer, probe, query, mdVars, lyVars>>
    \/ construct /\ UNCHANGED <<probe, query, alVars, mdVars, lyVars>>
    \/ renderFrameSet /\ UNCHANGED <<probe, query, alVars, mdVars, lyVars>>
    \/ advance /\ UNCHANGED <<probe, query, alVars, mdVars, lyVars>>
    \/ framesDone /\ UNCHANGED <<probe, query, alVars, mdVars, lyVars>>

SpecPipeline == InitPipeline /\ [][NextPipeline]_vars

Spec == SpecTimeCode

(***************************************************************************)
(* Reference definitions the claims are stated with.                       *)
(***************************************************************************)

\* The tempo changes strictly inside (a, b)
InteriorChanges(tl, a, b) ==
    {k \in 1 .. Len(tl) : a < tl[k][1] /\ tl[k][1] < b}

\* The tempo in force at tick t: that of the last change at or before t,
\* the first tempo of the list before any change
TempoInForce(tl, t) ==
    LET before == {k \in 1 .. Len(tl) : tl[k][1] <= t}
    IN  IF before = {} THEN tl[1][2] ELSE tl[MaxOf(before)][2]

RECURSIVE SumPieces(_, _, _)
SumPieces(tl, cuts, k) ==
    IF k >= Len(cuts) THEN 0
    ELSE ticksToSecs(cuts[k], cuts[k + 1], TempoInForce(tl, cuts[k]))
         + SumPieces(tl, cuts, k + 1)

\* The seconds between ticks a and b, every sub-interval between tempo
\* changes timed at the tempo in force during it
PiecewiseSecs(tl, a, b) ==
    SumPieces(tl,
              SortedSeq({a, b} \cup {tl[k][1] : k \in InteriorChanges(tl, a, b)}),
              1)

Abs(n) == IF n < 0 THEN -n ELSE n

(***************************************************************************)
(* Claims about TimeCode.                                                  *)
(***************************************************************************)

\* C1: after every nbFramesToNextNote call the frames scheduled so far are
\* within one frame of the ideal elapsed seconds so far (self.secs) times
\* fps.  goToNextNote changes neither side, so this is stated of every state.
C1_DriftWithinOneFrame ==
    Abs(wroteFrames * SecsDen(midiResolution) - secs * fps)
        <= SecsDen(midiResolution)

\* C1 witness: three segments scheduled, the total off the ideal by a
\* fraction of a frame
C1_Witness ==
    /\ tcOp = "nbFrames"
    /\ Len(framesLog) >= 3
    /\ currentTickIndex = 2
    /\ wroteFrames * SecsDen(midiResolution) # secs * fps

\* C2: nbFramesToNextNote adds the elapsed seconds of the segment
\* current tick -> next tick to the ideal time, returns an integer nearest
\* to idealSeconds x fps minus the frames already scheduled, and adds that
\* count to the frames scheduled; 384-tick segments at 60 bpm, resolution
\* 384 and 30 fps give 30 frames each, and 370 then 398 ticks give 29 then 31.
C2_FramesForSegment ==
    /\ tcOp = "nbFrames" =>
          /\ secs = tcCall.prevSecs
                    + secsElapsedForTempoChanges(temposList, tcCall.prevTempoIndex,
                                                 tcCall.prevTempo, currentTick,
                                                 nextTick).secs
          /\ tcCall.ret + tcCall.prevWrote
                \in RoundChoices(secs * fps, SecsDen(midiResolution))
          /\ wroteFrames = tcCall.prevWrote + tcCall.ret
          /\ framesLog[Len(framesLog)] = tcCall.ret
    /\ TheInput = ScenarioPlain =>
          \A k \in 1 .. Len(framesLog) : framesLog[k] = 30
    /\ (/\ TheInput = ScenarioCorrection
        /\ Len(framesLog) = 2
        /\ currentTickIndex = 1
        /\ tcCalls = 1) => framesLog = <<29, 31>>

\* C2 witness: the 370-tick and the 398-tick segment have been scheduled
C2_Witness ==
    /\ TheInput = ScenarioCorrection
    /\ tcOp = "nbFrames"
    /\ currentTickIndex = 1
    /\ framesLog = <<29, 31>>

\* C3: a call of secsElapsedForTempoChanges (made by nbFramesToNextNote for
\* the segment current tick -> next tick) with tempo changes strictly inside
\* the interval returns the sum of the sub-intervals, each timed at the
\* tempo in force during it.
C3_PiecewiseAtActiveTempo ==
    (/\ tcOp = "nbFrames"
     /\ InteriorChanges(temposList, tcCall.startTick, tcCall.endTick) # {})
        => tcCall.seg = PiecewiseSecs(temposList, tcCall.startTick, tcCall.endTick)

\* C10 as claimed: atEnd() exactly when fewer than 2 ticks remain from the
\* current tick index on, and false while a next tick exists
C10_AtEndFewerThanTwoTicks ==
    tcOp # "idle" =>
        /\ atEnd <=> Len(miditicks) - currentTickIndex < 2
        /\ currentTickIndex + 1 < Len(miditicks) => ~atEnd

\* C10 amended: atEnd() exactly when fewer than 3 ticks remain from the
\* current tick index on, that is when the next tick is the last of the
\* list; while a tick follows the next tick atEnd() is false.
C10_AtEndFewerThanThreeTicks ==
    tcOp # "idle" =>
        /\ currentTick = miditicks[currentTickIndex + 1]
        /\ atEnd <=> Len(miditicks) - currentTickIndex < 3
        /\ atEnd <=> nextTick = Last(miditicks)
        /\ ~atEnd <=> \E k \in 1 .. Len(miditicks) : miditicks[k] > nextTick

\* C10 witness: the last segment reached by advancing
C10_Witness ==
    /\ tcOp = "goTo"
    /\ atEnd
    /\ currentTickIndex = 2
    /\ nextTick = Last(miditicks)

(***************************************************************************)
(* Claims about the additivity of elapsed time.                            *)
(***************************************************************************)

\* C4: the seconds elapsed over [a, b] equal those over [a, m] plus those
\* over [m, b].
C4_Additivity ==
    (probe.wholeDone /\ probe.leftDone /\ probe.rightDone)
        => probe.whole = probe.left + probe.right

(***************************************************************************)
(* Claims about getNoteIndices.                                            *)
(***************************************************************************)

\* The last action was a pass through the loop body that looked at an
\* anchor and a MIDI tick holding notes
ComparedStep ==
    alOp \in {"skipTick", "skipGrob", "skipGrobAndTick", "match", "firstUnmatched"}

prevGrob == grobs[alPrev.i + 1]

prevTick == alPrev.midiTicks[alPrev.midiIndex + 1]

\* In that pass the anchor's expected tick was the MIDI tick and the
\* anchor's pitch was not among the pitches of the tick
CoincidentMismatch ==
    /\ ComparedStep
    /\ grobTick(prevGrob, alResolution) = prevTick
    /\ prevGrob.pitch \notin notesInTicks[prevTick]

\* No anchor's expected tick is a tick that holds notes
NoCommonTimes ==
    \A k \in 1 .. Len(grobs) :
        grobTick(grobs[k], alResolution) \notin DOMAIN notesInTicks

IsSuffix(t, s) ==
    /\ Len(t) <= Len(s)
    /\ t = SubSeq(s, Len(s) - Len(t) + 1, Len(s))

C6_MismatchKeepsAnchor ==
    (CoincidentMismatch /\ alPrev.alignedNoteIndices # <<>>) =>
        /\ midiTicks = pop(alPrev.midiTicks, alPrev.midiIndex)
        /\ i = alPrev.i

\* C6 amended: on a pitch mismatch at coinciding ticks that is not the first
\* candidate sync point, the tick is dropped from the tick list and the
\* anchor is skipped with it (the anchor pointer advances by one); the MIDI
\* pointer stays and no sync point is emitted.
C6_MismatchSkipsGrobAndTick ==
    (CoincidentMismatch /\ alPrev.alignedNoteIndices # <<>>) =>
        /\ midiTicks = pop(alPrev.midiTicks, alPrev.midiIndex)
        /\ i = alPrev.i + 1
        /\ midiIndex = alPrev.midiIndex
        /\ alignedNoteIndices = alPrev.alignedNoteIndices

\* C6 witness: a mismatch after a sync point, with an anchor left to look at
C6_Witness ==
    /\ CoincidentMismatch
    /\ alPrev.alignedNoteIndices # <<>>
    /\ alOp = "skipGrobAndTick"
    /\ i < Len(grobs)

\* C7: a pitch mismatch at coinciding ticks while no sync point has been
\* emitted is accepted: a sync point is emitted for it, both pointers
\* advance and the tick stays in the tick list.
C7_FirstCandidateAccepted ==
    (CoincidentMismatch /\ alPrev.alignedNoteIndices = <<>>) =>
        /\ alignedNoteIndices = <<prevGrob.x>>
        /\ syncTicks = <<prevTick>>
        /\ i = alPrev.i + 1
        /\ midiIndex = alPrev.midiIndex + 1
        /\ midiTicks = alPrev.midiTicks

\* C7 witness: the first coincidence came after an anchor and a tick had
\* been skipped, and was accepted without a pitch match
C7_Witness ==
    /\ CoincidentMismatch
    /\ alPrev.alignedNoteIndices = <<>>
    /\ alPrev.i > 0
    /\ ticksSkipped > 0
    /\ Len(alignedNoteIndices) = 1

\* C8: with fewer than 2 sync points, and whenever no anchor's expected tick
\* is a MIDI note tick, getNoteIndices ends in the "not enough
\* synchronization points" abort and returns nothing; with 2 or more it
\* returns.
C8_NotEnoughSyncPoints ==
    /\ alpc = "returned" => Len(alignedNoteIndices) >= 2
    /\ alOp = "finish" =>
          /\ Len(alignedNoteIndices) < 2 =>
                alpc = "bug" /\ alBug = "Not enough synchronization points found"
          /\ Len(alignedNoteIndices) >= 2 => alpc = "returned"
          /\ NoCommonTimes => alpc = "bug" /\ alignedNoteIndices = <<>>

\* C8 witness: a run that found one sync point and was aborted
C8_Witness ==
    /\ alOp = "finish"
    /\ alpc = "bug"
    /\ Len(alignedNoteIndices) = 1

\* C9: once the ticks dropped in a row reach the ceiling, alignment has
\* aborted.
C9_ConsecutiveSkipCeiling ==
    consecutiveSkips >= SkipCeiling => alpc = "bug"

(***************************************************************************)
(* Claims about VideoFrameWriter.frames and the observers of a TimeCode.   *)
(***************************************************************************)

Registered(observer) ==
    \E k \in 1 .. Len(observers) : observers[k] = observer

StrictlyIncreasing(s) ==
    \A k \in 1 .. Len(s) - 1 : s[k] < s[k + 1]

\* The note positions ScoreImage was constructed on
GivenPositions ==
    SubSeq(scoreImage.notesXpositions, 1, Len(scoreImage.notesXpositions) - 1)

\* C11: when VideoFrameWriter.frames has run to its end, a frame set has
\* been generated for every adjacent pair of entries of the tick list, the
\* pair of the last note and the terminal tick included.
C11_FrameSetForEveryPair ==
    writer.pc = "done" =>
        /\ Len(writer.frameSets) = Len(miditicks) - 1
        /\ \A k \in 1 .. Len(miditicks) - 1 :
              /\ writer.frameSets[k].left = miditicks[k]
              /\ writer.frameSets[k].right = miditicks[k + 1]

\* C12: on a tick list of n >= 3 entries atEnd() is false after
\* construction and true after exactly n - 2 goToNextNote calls
\* (currentTickIndex counts them), never later; and the loop
\* `while not atEnd: goToNextNote` comes to its end.
C12_AtEndAfterAllButTwoAdvances ==
    /\ [](Len(miditicks) >= 3 =>
            /\ tcOp = "init" => ~atEnd
            /\ atEnd <=> currentTickIndex = Len(miditicks) - 2
            /\ currentTickIndex <= Len(miditicks) - 2)
    /\ <>(writer.pc = "done")

\* C12 witness: 4 ticks, the loop has ended after 2 advances
C12_Witness ==
    /\ writer.pc = "done"
    /\ Len(miditicks) = 4
    /\ tcOp = "goTo"
    /\ currentTickIndex = 2
    /\ atEnd

C15_UnequalTicksAdvanceOneSide ==
    (ComparedStep /\ grobTick(prevGrob, alResolution) # prevTick) =>
        /\ alignedNoteIndices = alPrev.alignedNoteIndices
        /\ midiIndex = alPrev.midiIndex
        /\ prevTick < grobTick(prevGrob, alResolution) =>
              /\ Len(midiTicks) = Len(alPrev.midiTicks) - 1
              /\ \A k \in 1 .. Len(midiTicks) :
                    midiTicks[k] = alPrev.midiTicks[IF k <= alPrev.midiIndex
                                                    THEN k ELSE k + 1]
              /\ i = alPrev.i
        /\ grobTick(prevGrob, alResolution) < prevTick =>
              /\ midiTicks = alPrev.midiTicks
              /\ i = alPrev.i + 1

\* C15 witness: an anchor skipped, after a tick was dropped
C15_Witness ==
    /\ alOp = "skipGrob"
    /\ grobTick(prevGrob, alResolution) < prevTick
    /\ ticksSkipped > 0
    /\ i = alPrev.i + 1
    /\ midiTicks = alPrev.midiTicks

\* C16: the ticks paired with the sync points emitted so far are strictly
\* increasing.
C16_SyncTicksStrictlyIncreasing ==
    StrictlyIncreasing(syncTicks)

(***************************************************************************)
(* Claims about the tempo cursor.                                          *)
(***************************************************************************)

\* The tempo changes a cursor at tempoIndex ti has not consumed
Unconsumed(tl, ti) == {k \in 1 .. Len(tl) : k > ti}

\* C17: a call of secsElapsedForTempoChanges(a, b) only moves the tempo
\* cursor forward and leaves every tempo change with tick < b consumed; when
\* no change unconsumed before the call lies strictly inside (a, b) it
\* returns (b - a)/resolution x 60/tempo, the tempo being the one the
\* cursor is left on; and the five calls of the test on the timeline
\* [(0,60),(1152,90),(3456,60)] at resolution 384 return 3, 6, 4, 3 and 12
\* seconds.
C17_ForwardOnlyCursor ==
    /\ query.asked # <<>> =>
          LET c == query.last
          IN  /\ query.cursor.tempoIndex >= c.before.tempoIndex
              /\ \A k \in Unconsumed(query.tl, query.cursor.tempoIndex) :
                    query.tl[k][1] >= c.b
              /\ (\A k \in Unconsumed(query.tl, c.before.tempoIndex) :
                     ~(c.a < query.tl[k][1] /\ query.tl[k][1] < c.b))
                    => c.secs = ticksToSecs(c.a, c.b, query.cursor.tempo)
    /\ query.asked = ScenarioScript =>
          query.results = [k \in 1 .. 5 |->
                             <<3, 6, 4, 3, 12>>[k] * SecsDen(query.resolution)]

\* The pitches of the notes of a tick, each with the bend attached to its
\* NoteOn event added
BentPitches(tick) ==
    {n * BendRange + (IF EventKey(tick, n) \in DOMAIN pitchBends
                      THEN pitchBends[EventKey(tick, n)] ELSE 0) :
        n \in notesInTicks[tick]}

\* C18: at coinciding ticks the anchor's pitch is compared with the
\* bend-adjusted pitches of the tick's notes (note number + bend/4096): the
\* pass finds a pitch match exactly when the anchor's pitch is one of them,
\* so an anchor that has only the raw note number of a bent note does not
\* match it.
C18_BendAdjustedComparison ==
    (ComparedStep /\ grobTick(prevGrob, alResolution) = prevTick) =>
        (alOp = "match" <=> grobPitchValue(prevGrob) \in BentPitches(prevTick))

\* The steps of getNotesInTicks that look at an event
EventSteps ==
    {"tickAttributeError", "orphanedPitchBend", "notFollowedByNoteOn",
     "followedByNoteOff", "pitchwheel", "noteOff", "unhashableEvent",
     "noteOn", "skipEvent"}

\* C19: in getNotesInTicks, when a non-zero pitch bend is pending and the
\* next event of the track is at another tick, is not a note-on, or is a
\* note-on with velocity 0, extraction stops with a bug-class error; a
\* pending bend is cleared only by attaching it to the following note-on
\* with a velocity; and a zero bend never becomes pending.
C19_PendingBendAborts ==
    /\ (/\ extract.op \in EventSteps
        /\ extract.before # None
        /\ \/ extract.event.time # extract.before.time
           \/ extract.event.type # "note_on"
           \/ extract.event.velocity = 0)
          => extract.pc = "bug"
    /\ (/\ extract.op \in EventSteps
        /\ extract.before # None
        /\ extract.pendingPitchBend = None)
          => /\ extract.event.type = "note_on"
             /\ extract.event.velocity # 0
             /\ EventKey(extract.event.time, extract.event.note)
                   \in DOMAIN extract.pitchBends
             /\ extract.pitchBends[EventKey(extract.event.time,
                                            extract.event.note)]
                   = extract.before.pitch
    /\ extract.pendingPitchBend # None => extract.pendingPitchBend.pitch # 0

\* The ticks of the note-ons with a velocity on the tracks after the first
NoteOnTicks ==
    UNION {{midiFile[t][k].time :
              k \in {j \in 1 .. Len(midiFile[t]) :
                       /\ midiFile[t][j].type = "note_on"
                       /\ midiFile[t][j].velocity > 0}} :
             t \in 2 .. Len(midiFile)}

\* C20: getMidiEvents returns as tick list the ascending distinct ticks
\* that hold a note-on with a velocity on a track other than the first,
\* then exactly one terminal entry, the largest end-of-track tick of those
\* tracks; the terminal entry is a sentinel that has no note set.
C20_TickListWithSentinel ==
    (extract.pc = "done" /\ Len(midiFile) >= 2) =>
        LET terminal == MaxOf({midiFile[t][Len(midiFile[t])].time :
                                  t \in 2 .. Len(midiFile)})
        IN  /\ extract.midiTicks = SortedSeq(NoteOnTicks) \o <<terminal>>
            /\ terminal \notin DOMAIN extract.notesInTicks

\* The lines of the output that belong to the trace, and those of a moment
TraceLineNumbers ==
    {k \in 1 .. Len(leftmost.lines) : startswith(leftmost.lines[k])}

GrobLineNumbers ==
    {k \in TraceLineNumbers : match(leftmost.lines[k])}

LinesOfMoment(m) ==
    {k \in GrobLineNumbers : leftmost.lines[k].moment[1] = m}

LineX(k) == grobX(leftmost.lines[k], leftmost.dpi, leftmost.leftPaperMarginPx)

\* The earliest of the lines of a moment that have its smallest x
LeftmostLine(m) ==
    CHOOSE k \in LinesOfMoment(m) :
        \A j \in LinesOfMoment(m) :
            LineX(k) < LineX(j) \/ (LineX(k) = LineX(j) /\ k <= j)

\* C21: getLeftmostGrobsByMoment returns exactly one anchor per distinct
\* moment of the trace, in ascending moment order, and the anchor of a
\* moment has the smallest pixel x of the trace lines of that moment, the
\* earliest line on ties, with that line's pitch and source location.
C21_LeftmostGrobPerMoment ==
    leftmost.pc = "returned" =>
        LET moments == {leftmost.lines[k].moment[1] : k \in GrobLineNumbers}
        IN  /\ Len(leftmost.groblist) = Cardinality(moments)
            /\ \A n \in 1 .. Len(leftmost.groblist) :
                  LET grob == leftmost.groblist[n]
                  IN  /\ grob[1] \in moments
                      /\ n > 1 => leftmost.groblist[n - 1][1] < grob[1]
                      /\ grob[2] = LineX(LeftmostLine(grob[1]))
                      /\ grob[3] = LySrcLocation(
                                      leftmost.lines[LeftmostLine(grob[1])])

\* Two moments met in descending order, the later one with two lines of
\* the same x and different pitches and columns
C21_Witness ==
    /\ leftmost.pc = "returned"
    /\ Len(leftmost.groblist) = 2
    /\ Len(leftmost.lines) = 3
    /\ leftmost.lines[1].moment = <<1>>
    /\ leftmost.lines[2].moment = <<1>>
    /\ leftmost.lines[3].moment = <<0>>
    /\ leftmost.lines[1].extents = leftmost.lines[2].extents
    /\ leftmost.lines[1].pitch # leftmost.lines[2].pitch
    /\ leftmost.lines[1].from # leftmost.lines[2].from

\* The first of the given lines, 0 if there is none
FirstOf(S) == IF S = {} THEN 0 ELSE CHOOSE k \in S : \A j \in S : k <= j

\* A run over a trace with a line in S stops at the first of them with
\* the bug that names it, and returns nothing
AbortsAtFirstOf(S) ==
    S # {} =>
        /\ leftmost.pc # "returned"
        /\ leftmost.k <= FirstOf(S)
        /\ leftmost.pc = "bug" =>
              /\ leftmost.k = FirstOf(S)
              /\ leftmost.bug = [text |-> "Failed to parse ly2video line",
                                 line |-> FirstOf(S)]

\* C22 as stated: every line of the trace that does not match the anchor
\* grammar makes getLeftmostGrobsByMoment abort at once with a bug that
\* names the line, and no anchor list is returned.
C22_EveryUnmatchedLineAborts ==
    AbortsAtFirstOf(TraceLineNumbers \ GrobLineNumbers)

\* C22: every line of the trace that is not a comment line and does not
\* match the anchor grammar makes getLeftmostGrobsByMoment abort at once
\* with a bug that names the line, and no anchor list is returned from a
\* trace with such a line.
C22_UnmatchedLineAborts ==
    AbortsAtFirstOf({k \in TraceLineNumbers \ GrobLineNumbers :
                       ~matchComment(leftmost.lines[k])})

\* The run stopped at an unparsable third line, after a comment and a grob
C22_Witness ==
    /\ leftmost.pc = "bug"
    /\ leftmost.k = 3
    /\ leftmost.bug.line = 3
    /\ leftmost.lines[1] = CommentLine
    /\ leftmost.lines[2] \in WellFormedLines
    /\ leftmost.lines[3] \in MalformedLines
    /\ leftmost.leftmostGrobs # <<>>

\* The last action was a pass through the loop body that got as far as
\* the anchor's pitch token
AnchorStep == ComparedStep \/ alOp = "finalTick"

\* The pitch set of the last tick paired with a sync point that carried
\* two or more notes
RecordedChord(ticks) ==
    LET chords == {k \in 1 .. Len(ticks) :
                     Cardinality(notesInTicks[ticks[k]]) >= 2}
    IN  IF chords = {} THEN {}
        ELSE notesInTicks[ticks[MaxOf(chords)]]

\* C23: the chord getNoteIndices has recorded is the pitch set of the last
\* matched tick that carried two or more notes; an anchor that is a
\* repeated-chord marker, met while no chord is recorded, ends the run
\* with a bug; met at a coinciding tick with a chord recorded, it matches
\* exactly when a pitch of the recorded chord is among the tick's pitches.
C23_RepeatedChordMarker ==
    /\ alpc # "idle" => lastChord.notes = RecordedChord(syncTicks)
    /\ (AnchorStep /\ prevGrob.q) =>
          IF alPrev.lastChord.notes = {}
          THEN alpc = "bug"
          ELSE (ComparedStep /\ grobTick(prevGrob, alResolution) = prevTick) =>
                 (alOp = "match" <=>
                     alPrev.lastChord.notes \cap notesInTicks[prevTick] # {})

\* C24: whatever order enter, leave, inc, dec and endArgument are called in,
\* the stack of parsers is never empty and its first parser is still the
\* one reset made: no call fails on an empty stack
C24_StackNeverEmpty ==
    tokenizer.pc # "idle" =>
        /\ tokenizer.pc # "IndexError"
        /\ Len(tokenizer.state) >= 1
        /\ tokenizer.state[1].cls = tokenizer.parserClass
        /\ tokenizer.state[1].token = NoToken
        /\ tokenizer.state[1].argcount = ClassArgcount(tokenizer.parserClass)

\* leave and dec have been called with only the first parser on the stack
C24_Witness ==
    /\ tokenizer.op \in {"leave", "dec"}
    /\ Len(tokenizer.before.state) = 1
    /\ Len(tokenizer.state) = 1

\* The code points of the tokens yielded so far, one after the other
RECURSIVE Concatenation(_)
Concatenation(toks) ==
    IF toks = <<>> THEN <<>>
    ELSE Concatenation(SubSeq(toks, 1, Len(toks) - 1)) \o Last(toks).value

\* C25: tokens(text, pos) never fails and loses nothing: each token starts
\* where the one before it ended, the first one at pos, none is empty, the
\* tokens put together are the text from pos to where the loop is, and the
\* loop ends at the end of the text
C25_TokensLoseNoInput ==
    /\ tokenizer.pc # "UnicodeDecodeError"
    /\ tokenizer.pc \in {"tokens", "done"} =>
          /\ \A k \in 1..Len(tokenizer.yielded) :
                /\ tokenizer.yielded[k].pos < tokenizer.yielded[k].end
                /\ tokenizer.yielded[k].pos =
                      IF k = 1 THEN tokenizer.first
                      ELSE tokenizer.yielded[k - 1].end
          /\ tokenizer.yielded # <<>> =>
                Last(tokenizer.yielded).end = tokenizer.pos
          /\ Concatenation(tokenizer.yielded) =
                decode(slice(tokenizer.text, tokenizer.first, tokenizer.pos))
    /\ tokenizer.pc = "done" => tokenizer.pos = Len(tokenizer.text)

\* C26: tokens does not end inside a quoted string or a block comment: at
\* the end of the input the current parser is not the one a quote or a %{
\* entered
C26_UnterminatedIsReported ==
    tokenizer.pc = "done" =>
        parser(tokenizer).cls \notin {"StringParser", "BlockCommentParser"}

\* C27: the language is "nederlands" when tokens starts on a new Tokenizer;
\* a LanguageName token, produced by the parser \language entered, and an
\* IncludeLanguageFile token, produced by the parser \include entered, set
\* it to the name between their quotes; no other token and no end of the
\* iteration changes it; freeze keeps it with the stack and thaw puts both
\* back
C27_LanguageIsTokenizerState ==
    /\ tokenizer.op = "tokens" => tokenizer.language = "nederlands"
    /\ (tokenizer.op = "LanguageName" /\ tokenizer.pc = "tokens") =>
          /\ Last(tokenizer.before.state).cls = "LanguageParser"
          /\ \E name \in LanguageNames :
                /\ Last(tokenizer.yielded).value =
                      <<Quote>> \o name \o <<Quote>>
                /\ tokenizer.language = languageOf(name)
    /\ (tokenizer.op = "IncludeLanguageFile" /\ tokenizer.pc = "tokens") =>
          /\ Last(tokenizer.before.state).cls = "IncludeParser"
          /\ \E name \in LanguageNames :
                /\ Last(tokenizer.yielded).value =
                      <<Quote>> \o name \o <<".", "l", "y", Quote>>
                /\ tokenizer.language = languageOf(name)
    /\ tokenizer.op \notin {"none", "tokens", "LanguageName",
                            "IncludeLanguageFile", "thaw"} =>
          tokenizer.language = tokenizer.before.language
    /\ tokenizer.op = "freeze" =>
          tokenizer.frozen = <<tokenizer.before.state,
                               tokenizer.before.language>>
    /\ tokenizer.op = "thaw" =>
          /\ tokenizer.language = tokenizer.frozen[2]
          /\ tokenizer.state = tokenizer.frozen[1]

\* The state kept before \language "english" has been put back after it
C27_Witness ==
    /\ tokenizer.op = "thaw"
    /\ tokenizer.before.language = "english"
    /\ tokenizer.language = "nederlands"
    /\ \E k \in 1..Len(tokenizer.yielded) :
          tokenizer.yielded[k].cls = "LanguageName"

\* C28: an abort by fatal and an abort by bug never end with the same exit
\* status, over all the runs a caller has seen, and a warning leaves the
\* run going
C28_TiersHaveDistinctStatuses ==
    /\ \A x, y \in process.exits :
          x.status = y.status => x.tier = y.tier
    /\ process.op = "warn" => process.pc = "running"

\* C29: no call of goToNextNote, nbFramesToNextNote or
\* secsElapsedForTempoChanges, in any order, takes the TimeCode backwards:
\* the tick index, the tempo index, the ideal elapsed seconds and the total
\* of frames never decrease, and nbFramesToNextNote returns no negative
\* number of frames
C29_TimeCodeOnlyMovesForward ==
    [][/\ currentTickIndex' >= currentTickIndex
       /\ tempoIndex' >= tempoIndex
       /\ secs' >= secs
       /\ wroteFrames' >= wroteFrames
       /\ tcOp' = "nbFrames" => tcCall'.ret >= 0]_vars

\* C30: after getNoteIndices has returned, the frames loop never reads a
\* note position that the score image does not have: no pass through the
\* loop fails on an index, and while the loop runs the note index of the
\* score image and the one after it are inside the list of note positions
C30_FramesAreIndexSafe ==
    alpc = "returned" =>
        /\ writer.pc # "IndexError"
        /\ writer.pc \in {"loop", "advance"} /\ ~atEnd => inRange(scoreImage)

\* The anchor whose pixel x is the given note index
anchorAt(x) == CHOOSE k \in 1 .. Len(grobs) : grobs[k].x = x

\* The k-th emitted note index belongs to the k-th tick of the list
pairedUpTo(n) ==
    \A k \in 1 .. n :
        /\ k <= Len(midiTicks)
        /\ \E g \in 1 .. Len(grobs) : grobs[g].x = alignedNoteIndices[k]
        /\ midiTicks[k] = grobTick(grobs[anchorAt(alignedNoteIndices[k])],
                                   alResolution)

\* C31: at every loop head of getNoteIndices before the terminal tick is
\* passed, the number of note indices emitted equals the MIDI pointer, and
\* the k-th tick of the list is the expected tick of the anchor whose x is
\* the k-th emitted index; so on return the k-th pixel position belongs to
\* the k-th retained tick
C31_PositionalPairing ==
    /\ alpc = "loop" /\ alOp # "finalTick" =>
          /\ Len(alignedNoteIndices) = midiIndex
          /\ pairedUpTo(midiIndex)
    /\ alpc \in {"loop", "after", "returned"} =>
          pairedUpTo(Len(alignedNoteIndices))

C31_Witness ==
    /\ alpc = "returned"
    /\ ticksSkipped >= 1
    /\ Len(alignedNoteIndices) >= 2
    /\ alPrev.midiIndex = Len(alignedNoteIndices) + 1

\* What a freshly constructed TimeCode with the tempo list of the queried
\* one returns for the same call
freshAnswer(iv) ==
    secsElapsedForTempoChanges(query.tl,
                               InitialCursor(query.tl, 0).tempoIndex,
                               InitialCursor(query.tl, 0).tempo,
                               iv[1], iv[2]).secs

\* C32: secsElapsedForTempoChanges is a function of its arguments: two
\* calls on one TimeCode with the same start and end tick return the same
\* value whatever was called in between, and every call returns what the
\* same call returns on a freshly constructed TimeCode
C32_ElapsedIsAFunction ==
    /\ \A j, k \in 1 .. Len(query.asked) :
          query.asked[j] = query.asked[k] => query.results[j] = query.results[k]
    /\ \A k \in 1 .. Len(query.asked) :
          query.results[k] = freshAnswer(query.asked[k])

\* C33: when getNoteIndices has returned and is run again with the same
\* anchors and the tick list it left behind, the second run returns too,
\* with the same note indices, and removes no tick
C33_AlignmentIsIdempotent ==
    firstRun.done =>
        /\ alpc # "bug"
        /\ ticksSkipped = 0
        /\ midiTicks = firstRun.ticks
        /\ alpc = "returned" => alignedNoteIndices = firstRun.indices

\* What is left for the loop of getNoteIndices to do: the anchors after the
\* anchor pointer and the ticks from the MIDI pointer on
remaining == (Len(grobs) - i) + (Len(midiTicks) - midiIndex)

\* The pass through the loop before this one looked at the last entry of
\* the tick list, the terminal tick
lookedAtTerminalTick ==
    /\ alOp \notin {"start", "idle"}
    /\ alPrev.midiIndex = Len(alPrev.midiTicks) - 1

\* C34: getNoteIndices terminates: every pass through its loop advances
\* the anchor pointer, advances the MIDI pointer, removes a tick or leaves
\* the loop, so that what remains to do shrinks and never goes below 0;
\* after the pass that looks at the terminal tick at most one more pass
\* starts, and it leaves the loop; and every run ends, by returning or by
\* a bug
C34_AlignmentTerminates ==
    /\ [][alpc = "loop" =>
            /\ \/ i' > i
               \/ midiIndex' > midiIndex
               \/ Len(midiTicks') < Len(midiTicks)
               \/ alpc' # "loop"
            /\ alpc' = "loop" => remaining' < remaining /\ remaining' >= 0]_vars
    /\ [](alpc = "loop" /\ lookedAtTerminalTick =>
            i >= Len(grobs) \/ midiIndex = Len(midiTicks))
    /\ <>(alpc \in {"returned", "bug"})

C34_Witness ==
    /\ alpc = "after"
    /\ alOp = "ranOutOfTicks"
    /\ ticksSkipped >= 1
    /\ Len(alignedNoteIndices) >= 1
    /\ i > Len(alignedNoteIndices)

\* The tempo changes of the TimeCode at ticks the predicate holds of
changesWhere(before(_)) ==
    {k \in 1 .. Len(temposList) : before(temposList[k][1])}

\* The tempo of the last of these changes, and the first tempo of the list
\* (what the constructor starts from) when there is none
tempoAfter(changes) ==
    IF changes = {} THEN temposList[1][2]
    ELSE temposList[CHOOSE k \in changes : \A j \in changes : j <= k][2]

\* C35: a TimeCode constructed on a tick list whose first tick is greater
\* than 0 has consumed exactly the tempo changes before the first tick,
\* with the ideal elapsed time, the frames total and the tick index at 0;
\* and its first segment, when no tempo change lies inside it, is timed at
\* the tempo in force at the first tick
C35_SilentPreludeConsumed ==
    tcOp # "idle" /\ miditicks[1] > 0 =>
        LET first == miditicks[1]
            earlier(t) == t < first
            upTo(t) == t <= first
            inside(t) == currentTick < t /\ t < nextTick
        IN  /\ tcOp = "init" =>
                  /\ tempoIndex = Cardinality(changesWhere(earlier))
                  /\ tempo = tempoAfter(changesWhere(earlier))
                  /\ secs = 0
                  /\ wroteFrames = 0
                  /\ currentTickIndex = 0
            /\ /\ tcOp = "nbFrames"
               /\ currentTickIndex = 0
               /\ Len(framesLog) = 1
               /\ changesWhere(inside) = {}
               => /\ tcCall.prevSecs = 0
                  /\ tcCall.prevWrote = 0
                  /\ tcCall.seg = ticksToSecs(currentTick, nextTick,
                                              tempoAfter(changesWhere(upTo)))

C35_Witness ==
    /\ tcOp = "nbFrames"
    /\ currentTickIndex = 0
    /\ Len(framesLog) = 1
    /\ miditicks[1] > 1
    /\ tcCall.prevTempoIndex = 2
    /\ tcCall.prevTempo # temposList[1][2]
    /\ tempoIndex = 2

\* What endArgument may do to the stack it was called on: it pops only
\* parsers at level 0 that had one argument to come, never one with
\* argument count 0, and a parser it reaches with more than one argument to
\* come loses one and stays
endArgumentCounts ==
    tokenizer.op = "endArgument" =>
        LET b == tokenizer.before.state
            a == tokenizer.state
        IN  /\ Len(a) <= Len(b)
            /\ \A k \in Len(a) + 1 .. Len(b) :
                  b[k].level = 0 /\ b[k].argcount = 1
            /\ \A k \in 1 .. Len(a) - 1 : a[k] = b[k]
            /\ Len(a) >= 1 =>
                  IF Len(a) > 1 /\ b[Len(a)].level = 0 /\ b[Len(a)].argcount > 1
                  THEN a[Len(a)] = [b[Len(a)] EXCEPT !.argcount = @ - 1]
                  ELSE a[Len(a)] = b[Len(a)]

\* C36 as claimed: after a construct that enters a parser with argument
\* count 1 and reads one braced argument, the stack depth and the nesting
\* level are what they were before the construct; and endArgument pops a
\* parser only when its last argument completes at level 0, never a parser
\* with argument count 0
C36_ConstructRestoresDepth ==
    /\ tokenizer.construct.phase = "closed" =>
          depth(tokenizer) = <<Len(tokenizer.construct.state),
                               Last(tokenizer.construct.state).level>>
    /\ endArgumentCounts

\* C36: after a construct that enters a parser with argument count 1 and
\* reads one braced argument, the stack is what it was before the
\* construct when the enclosing parser is the bottom of the stack, is
\* inside braces (level > 0) or has argument count 0; an enclosing parser
\* at level 0 with more than one argument to come loses one of them, and
\* one with a single argument to come is popped as well, since the braced
\* argument completes its argument too.  endArgument pops a parser only
\* when its last argument completes at level 0, never a parser with
\* argument count 0
C36_ConstructCompletesArgument ==
    /\ tokenizer.construct.phase = "closed" =>
          LET s == tokenizer.construct.state
              outer == Last(s)
          IN  IF Len(s) = 1 \/ outer.level > 0 \/ outer.argcount = 0
              THEN tokenizer.state = s
              ELSE IF outer.argcount > 1
              THEN tokenizer.state =
                      [s EXCEPT ![Len(s)].argcount = @ - 1]
              ELSE Len(tokenizer.state) < Len(s)
    /\ endArgumentCounts

C36_Witness ==
    /\ tokenizer.construct.phase = "closed"
    /\ Len(tokenizer.construct.state) = 2
    /\ Last(tokenizer.construct.state).level = 0
    /\ Last(tokenizer.construct.state).argcount = 1
    /\ Len(tokenizer.state) = 1

\* A call of __cropFrame has returned a frame
cropped == crop.pc = "ready" /\ crop.calls > 0

\* The cursor x of the last call, index - left edge as the call found it,
\* is past width - rightMargin
overLimit ==
    crop.last.index - crop.last.from > crop.width - crop.last.margin

\* C37 as claimed: a call of __cropFrame keeps the crop window where it is
\* while the cursor x is at most width - rightMargin, moves it to
\* index - leftMargin and returns leftMargin as cursor x when the cursor is
\* past that limit, and returns a frame of the configured width and height
C37_WindowKeptOrJumps ==
    cropped =>
        /\ ~overLimit =>
              /\ crop.leftEdge = SetTo(crop.last.from)
              /\ crop.last.cursorX = crop.last.index - crop.last.from
        /\ overLimit => crop.last.cursorX = crop.leftMargin
        /\ crop.last.size = <<crop.width, crop.height>>

\* C37: as claimed whenever the window so placed ends at or before the
\* right end of the picture; a window that would reach past the right end
\* is put at picture width - width instead, with rightMargin set to 0 from
\* then on, and the cursor x returned is still index - left edge as found
\* (cursor within the limit) or leftMargin (cursor past it).  After the
\* first call a window is only ever moved by a cursor past the limit.  The
\* frame returned always has the configured width and height
C37_WindowKeptJumpsOrClamps ==
    cropped =>
        LET placed == IF overLimit THEN crop.last.index - crop.leftMargin
                      ELSE crop.last.from
            pastEnd == crop.picture[1] - placed < crop.width
        IN  /\ crop.last.cursorX = IF overLimit THEN crop.leftMargin
                                   ELSE crop.last.index - crop.last.from
            /\ ~pastEnd =>
                  /\ crop.leftEdge = SetTo(placed)
                  /\ crop.rightMargin = crop.last.margin
            /\ pastEnd =>
                  /\ crop.leftEdge = SetTo(crop.picture[1] - crop.width)
                  /\ crop.rightMargin = 0
            /\ ~crop.last.first /\ ~overLimit => ~pastEnd
            /\ crop.last.size = <<crop.width, crop.height>>
            /\ crop.last.box[3] - crop.last.box[1] = crop.width
            /\ crop.last.box[1] = crop.leftEdge[1]

C37_Witness ==
    /\ cropped
    /\ crop.calls >= 2
    /\ ~crop.last.first
    /\ overLimit
    /\ crop.last.cursorX = crop.leftMargin
    /\ crop.leftEdge = SetTo(crop.last.index - crop.leftMargin)
    /\ crop.last.from # crop.leftEdge[1]

\* C38: the cursor x a call of __cropFrame returns is the requested index
\* minus the left edge of the rectangle that call cropped, on every call
\* of every sequence of calls, the call that clamps the window to the right
\* end of the picture included
C38_CursorMatchesCrop ==
    cropped => crop.last.cursorX = crop.last.index - crop.last.box[1]

\* The frames the TimeCode has scheduled so far: the sum of the results of
\* nbFramesToNextNote
RECURSIVE scheduledFrames(_)
scheduledFrames(log) ==
    IF log = <<>> THEN 0 ELSE Last(log) + scheduledFrames(SubSeq(log, 1, Len(log) - 1))

\* C39: VideoFrameWriter.frames raises no error whatever the frame counts
\* >= 0 of the segments are, a first segment of 0 frames included, and at
\* every segment boundary and at the end frameNum is the sum of the results
\* nbFramesToNextNote has returned
C39_FramesMatchSchedule ==
    (\A k \in DOMAIN framesLog : framesLog[k] >= 0) =>
        /\ writer.pc \notin {"UnboundLocalError", "IndexError"}
        /\ writer.pc \in {"loop", "advance", "done"} =>
              writer.frameNum = scheduledFrames(framesLog)

====
